---- MODULE Spec2Model ----
(***************************************************************************)
(* A model of the S7 datablock client (index.js, kept in                   *)
(* src/example/client.js from line 65 on):                                 *)
(*   - the request scheduler: SequentialRequests (admission gate),         *)
(*     getS7Data / setS7Data / readPLC / writePLC (gate loop and batches), *)
(*     S7.read / S7.write (client cache, connect, retries, chunking);      *)
(*   - the codec: DBStructure_calculateSize, DBStructure_encode,           *)
(*     DBStructure_parse;                                                  *)
(*   - the variable router PLC_handler.                                    *)
(* The specifications share the variables: Spec (scheduler), LiveSpec      *)
(* (scheduler with its timers firing), CodecSpec (layout, encoder,         *)
(* decoder), DecodeSpec (decoder on bytes of the controller),              *)
(* TimerEncodeSpec (encoder on datablocks with an IEC_TIMER), HandlerSpec  *)
(* (PLC_handler on a memory) and ValidationSpec (arguments of read/write). *)
(***************************************************************************)
EXTENDS Integers, Sequences, FiniteSets, TLC

VARIABLES
    req,        \* the arguments of each top-level call (fixed after Init)
    bufferSize, \* config.bufferSize, shared by the calls
    st,         \* each call's position and locals
    sequences,  \* SequentialRequests.sequences: host -> {available, timeout}
    reusable,   \* reusable_s7_connections: host -> client index, 0 = undefined
    clients,    \* the S7 instances constructed so far
    faults,     \* transport failures injected so far
    released,   \* history: hosts whose auto-release timer has fired
    cdb,        \* CodecSpec: the datablock (items with values)
    cbuf,       \* CodecSpec: the encoded buffer
    cput,       \* CodecSpec: history, where the encoder wrote each item
    cout,       \* CodecSpec: the decoder's output
    cpc,        \* CodecSpec: position
    hdb,        \* HandlerSpec: the datablock the PLC_handler was built from
    mem,        \* HandlerSpec: the controller's bytes of that datablock
    fractional, \* HandlerSpec: what the transport does with a fractional offset
    hlast,      \* HandlerSpec: the last write call and how it ended
    hres,       \* HandlerSpec: the result of the last readAll since
    hwrites,    \* HandlerSpec: write calls so far
    hcall       \* ValidationSpec: the call made on the handler and how it returned

schedVars == <<req, bufferSize, st, sequences, reusable, clients, faults, released>>

codecVars == <<cdb, cbuf, cput, cout, cpc>>

handlerVars == <<hdb, mem, fractional, hlast, hres, hwrites, hcall>>

vars == <<schedVars, codecVars, handlerVars>>

(***************************************************************************)
(* Bounds of the model.                                                    *)
(***************************************************************************)
\* transport failures (connect, raw read, raw write) injected in one run
MaxFaults == 3

\* size in bytes of the larger datablock of the requests
MaxSize == 5

\* items of a datablock given to the codec
MaxItems == 3

\* items of the datablock of a PLC_handler
MaxHItems == 3

\* write calls made through a PLC_handler
MaxWrites == 2

\* arguments of one call of PLC_handler.read / PLC_handler.write
MaxArgs == 3

\* items before, and after, the IEC_TIMER of a datablock
MaxNeighbours == 2

(***************************************************************************)
(* Program constants.                                                      *)
(***************************************************************************)
\* one round fewer than the gate loop makes
GateAttemptsMutShort == 20 - 1

\* for (let i = 0; i < 20; i++) in getS7Data / setS7Data
GateAttempts == 20

\* read_with_retries = async (db, offset, size, retries = 3)
ReadRetries == 3

Min(a, b) == IF a < b THEN a ELSE b

Max(a, b) == IF a > b THEN a ELSE b

\* Math.ceil(a / b) for a >= 0, b > 0
Ceil(a, b) == (a + b - 1) \div b

RECURSIVE Flatten(_)
\* the concatenation of a sequence of sequences
Flatten(ss) == IF ss = <<>> THEN <<>> ELSE Head(ss) \o Flatten(Tail(ss))

(***************************************************************************)
(* Values that travel through the scheduler.  Every value is a record of   *)
(* one shape so that results and carried errors can share a sequence.      *)
(***************************************************************************)
Tok(tag, a, b, l) == [tag |-> tag, a |-> a, b |-> b, l |-> l]

\* one decoded item {name, type, value} of datablock request e, item j
Val(e, j) == Tok("value", e.db, j, <<>>)

\* what S7.read rejects with: { error: e, request: db }; e is connect's
\* message (cause 1) or the message of the read that gave up (cause 2)
ReadErr(e, cause) == Tok("read error", e.db, cause, <<>>)

\* what S7.write rejects with (the connect error or write_with_retries' Error)
WriteErr(e) == Tok("write error", e.db, 0, <<>>)

\* '113: TCP : Unreachable peer'
Unreachable == Tok("113: TCP : Unreachable peer", 0, 0, <<>>)

\* the literal false that setS7Data pushes for a successful entry
False == Tok("false", 0, 0, <<>>)

Undefined == Tok("undefined", 0, 0, <<>>)

\* an array value (the result of a nested call)
List(s) == Tok("list", 0, 0, s)

\* an outcome of an awaited promise
Resolved(v) == [ok |-> TRUE, value |-> v]

Rejected(v) == [ok |-> FALSE, value |-> v]

\* the bytes the transport returns for DBRead(db, offset, len): the
\* controller's bytes at offset .. offset+len-1, each named by its address
RawData(offset, len) == [j \in 1..len |-> offset + j - 1]

\* DBStructure_parse seen from the scheduler: one value per item
ParsedValues(e) == List([j \in 1..e.items |-> Val(e, j)])

(***************************************************************************)
(* The requests of the model.                                              *)
(***************************************************************************)
Hosts == {"h1", "h2"}

Calls == {1, 2}

DbA == [db |-> 1, offset |-> 4, size |-> MaxSize, items |-> 2]

DbB == [db |-> 2, offset |-> 0, size |-> 2, items |-> 1]

Target(h, batch, dbs) == [host |-> h, batch |-> batch, dbs |-> dbs]

\* getS7Data / setS7Data (config, db): one target, db an object or an array
OneTarget(op, t) == [op |-> op, multi |-> FALSE, targets |-> <<t>>]

\* readPLC / writePLC over an array of { config, datablocks }
ManyTargets(op, ts) == [op |-> op, multi |-> TRUE, targets |-> ts]

Ops == {"read", "write"}

Requests ==
    UNION { { OneTarget(op, Target("h1", FALSE, <<DbA>>)),
              OneTarget(op, Target("h1", TRUE, <<DbA, DbB>>)),
              OneTarget(op, Target("h1", TRUE, <<DbB, DbA>>)),
              ManyTargets(op, << Target("h1", FALSE, <<DbB>>),
                                 Target("h2", FALSE, <<DbA>>) >>),
              ManyTargets(op, << Target("h1", TRUE, <<DbA, DbB>>),
                                 Target("h2", FALSE, <<DbB>>) >>) }
            : op \in Ops }

\* the second call is a single-target request
SingleRequests ==
    { OneTarget(op, Target("h1", FALSE, <<DbB>>)) : op \in Ops }

(***************************************************************************)
(* SequentialRequests                                                      *)
(***************************************************************************)
\* isAvailable(x): the answer and the registry after the call
isAvailableMutNoLock(seqs, x) ==
    [output |-> seqs[x].available, sequences |-> seqs]

isAvailable(seqs, x) ==
    IF seqs[x].available
    THEN [output |-> TRUE,
          sequences |-> [seqs EXCEPT ![x] = [available |-> FALSE, timeout |-> TRUE]]]
    ELSE [output |-> FALSE, sequences |-> seqs]

\* setAvailable(x): clearTimeout(existing.timeout); existing.available = true
setAvailable(seqs, x) ==
    [seqs EXCEPT ![x] = [available |-> TRUE, timeout |-> FALSE]]

(***************************************************************************)
(* Positions of a call.                                                    *)
(***************************************************************************)
CurTarget(c) == req[c].targets[st[c].ti]

CurEntry(c) == CurTarget(c).dbs[st[c].di]

CurHost(c) == CurTarget(c).host

\* a request is in flight from its dispatch (gate acquired) to its completion
InFlight(c) == st[c].pc \in {"connect", "xfer"}

\* pc: "gate" (awaiting delay(50 * i) before isAvailable), "connect" (awaiting
\* connect), "xfer" (awaiting a raw transfer), "pause" (awaiting delay(5)
\* between two entries of a batch), "done".
\* i is the loop variable of the gate loop while the call waits, that is the
\* number of rounds that found the gate busy; it is dead once the entry is
\* dispatched (0 from then on) and stays 20 when the loop ran out.
\* History fields: waited (the current entry found the gate busy), ncalls
\* (transport calls of the current entry), tries (DBRead calls of the current
\* raw transfer), failed (the current entry's read gave up), issued (the
\* chunks of the current entry, in the order first issued), parsed (the buffer
\* handed to DBStructure_parse), used (host and client of each dispatched
\* entry), adv (which loop the pause belongs to),
\* outcomes (the outcome of each entry, in order).
InitCall ==
    [pc |-> "gate", ti |-> 1, di |-> 1, i |-> 0, waited |-> FALSE, ncalls |-> 0,
     client |-> 0, used |-> <<>>, adv |-> "none", k |-> 0, retries |-> 0, tries |-> 0,
     failed |-> FALSE, issued |-> <<>>, buf |-> <<>>, parsed |-> <<>>,
     inner |-> <<>>, outer |-> <<>>, outcomes |-> <<>>,
     status |-> "pending", value |-> Undefined]

(***************************************************************************)
(* S7.read / S7.write: the client of a request (lines 670-672, 751-753).   *)
(***************************************************************************)
NewClient(h) == [host |-> h, connected |-> FALSE, disconnectTimeout |-> FALSE]

\* reusable[host] = reusable[host] || { client: new S7(config) }
\* connection = reusable[host] ; reusable[host] = undefined
TakeClient(reu, cls, h) ==
    LET fresh == reu[h] = 0
        cls1  == IF fresh THEN Append(cls, NewClient(h)) ELSE cls
        idx   == IF fresh THEN Len(cls1) ELSE reu[h]
    IN  [client |-> idx, clients |-> cls1, reusable |-> [reu EXCEPT ![h] = 0]]

\* S7.disconnect: (re)arm the 500 ms timer that calls client.Disconnect().
\* The timer's callback changes nothing in the program: the handle stays in
\* disconnectTimeout and connected stays as it is, so it is no action here.
disconnect(cls, idx) == [cls EXCEPT ![idx].disconnectTimeout = TRUE]

(***************************************************************************)
(* Chunking of a read (S7.read, lines 635-656).                            *)
(***************************************************************************)
Chunked(size) == bufferSize > 0 /\ size > bufferSize

batchCount(size) == IF Chunked(size) THEN Ceil(size, bufferSize) ELSE 1

\* offset and length of raw transfer number k (from 0)
ChunkOffset(e, k) == IF Chunked(e.size) THEN e.offset + k * bufferSize ELSE e.offset

ChunkLenMutNoRemainder(e, k) == IF Chunked(e.size) THEN bufferSize ELSE e.size

ChunkLen(e, k) ==
    IF ~Chunked(e.size) THEN e.size
    ELSE IF k < batchCount(e.size) - 1 THEN bufferSize
    ELSE e.size - k * bufferSize

\* read_with_retries, in its catch: if (retries > 1) { retries--; again }
read_with_retries_again(retries) == retries > 1

(***************************************************************************)
(* Batches: what the loops of getS7Data, setS7Data, readPLC and writePLC   *)
(* do with the outcome of one entry.                                       *)
(***************************************************************************)
\* getS7Data over an array: try { output.push(...result) } catch (e) { output.push(e) }
getS7Data_collectMutAbort(output, o) ==
    IF o.ok THEN [output |-> output \o o.value.l, thrown |-> FALSE]
    ELSE [output |-> output, thrown |-> TRUE]

getS7Data_collectMutNoSpread(output, o) ==
    [output |-> Append(output, o.value), thrown |-> FALSE]

getS7Data_collect(output, o) ==
    IF o.ok THEN [output |-> output \o o.value.l, thrown |-> FALSE]
    ELSE [output |-> Append(output, o.value), thrown |-> FALSE]

\* setS7Data over an array: try { ...; output.push(false) } catch (e) { output.push(e) }
setS7Data_collectMutAbort(output, o) ==
    IF o.ok THEN [output |-> Append(output, False), thrown |-> FALSE]
    ELSE [output |-> output, thrown |-> TRUE]

setS7Data_collect(output, o) ==
    [output |-> Append(output, IF o.ok THEN False ELSE o.value), thrown |-> FALSE]

\* setS7Data over an array, after the loop:
\* if (output.every(x => x === false)) return; else throw output
setS7Data_result(output) ==
    IF \A n \in 1..Len(output) : output[n] = False
    THEN Resolved(Undefined)
    ELSE Rejected(List(output))

\* getS7Data over an array, after the loop: return output
getS7Data_result(output) == Resolved(List(output))

\* readPLC / writePLC over an array: try { output.push(await ...) } catch (e) { output.push(e) }
PLC_collect(output, o) == Append(output, o.value)

\* The call record after entry (ti, di) of call c ended with outcome o:
\* the entry loop of getS7Data / setS7Data, then the target loop of
\* readPLC / writePLC.  s is the call record with the entry's locals updated.
AfterEntry(c, s, o) ==
    LET r    == req[c]
        t    == r.targets[s.ti]
        s1   == [s EXCEPT !.outcomes = Append(@, o)]
        col  == IF r.op = "read" THEN getS7Data_collect(s.inner, o)
                ELSE setS7Data_collect(s.inner, o)
        more == t.batch /\ ~col.thrown /\ s.di < Len(t.dbs)
        \* the outcome of getS7Data / setS7Data for this target
        to   == IF ~t.batch THEN o
                ELSE IF col.thrown THEN Rejected(o.value)
                ELSE IF r.op = "read" THEN getS7Data_result(col.output)
                ELSE setS7Data_result(col.output)
        outer1 == PLC_collect(s.outer, to)
    IN  IF more
        THEN [s1 EXCEPT !.pc = "pause", !.inner = col.output, !.adv = "db"]
        ELSE IF ~r.multi
        THEN [s1 EXCEPT !.pc = "done", !.inner = <<>>,
                        !.status = IF to.ok THEN "resolved" ELSE "rejected",
                        !.value = to.value]
        ELSE IF s.ti < Len(r.targets)
        THEN [s1 EXCEPT !.pc = "pause", !.inner = <<>>, !.outer = outer1,
                        !.adv = "target"]
        ELSE [s1 EXCEPT !.pc = "done", !.inner = <<>>, !.outer = outer1,
                        !.status = "resolved", !.value = List(outer1)]

(***************************************************************************)
(* The codec.  A buffer is a sequence of bytes (0..255); the byte at       *)
(* offset o is buf[o + 1].  An item is a record {name, type, size, strlen, *)
(* value, offset}; size = 0 and strlen = 0 stand for an absent field.  An  *)
(* item's offset is kept in tenths, as the decimal string the code stores  *)
(* ("2.3" is 23): byte offset * 10 + bit index.                            *)
(* Values are records of one shape: a boolean, a number, a text or         *)
(* diagnostic string, or an array of values.                               *)
(***************************************************************************)
Bool(b) == [t |-> "bool", n |-> IF b THEN 1 ELSE 0, s |-> <<>>]

Num(n) == [t |-> "num", n |-> n, s |-> <<>>]

Arr(vs) == [t |-> "arr", n |-> 0, s |-> vs]

\* a text, given as the codes of its characters
Str(codes) == [t |-> "str", n |-> 0, s |-> [k \in 1..Len(codes) |-> Num(codes[k])]]

\* the codes of the characters of a text
Codes(v) == [k \in 1..Len(v.s) |-> v.s[k].n]

\* not a number
NaN == [t |-> "nan", n |-> 0, s |-> <<>>]

\* the string parseValueFromBuffer returns from its catch
Diagnostic == [t |-> "diagnostic", n |-> 0, s |-> <<>>]

\* +value
ToNumber(v) == v.n

\* !!value: a non-empty string (a diagnostic) is true
Truthy(v) == IF v.t = "diagnostic" THEN TRUE ELSE v.n # 0

\* isFinite(+value) ? +value : 0
FiniteOrZero(v) == IF v.t \in {"num", "bool"} THEN Num(v.n) ELSE Num(0)

numberTypes ==
    {"SINT", "USINT", "INT", "UINT", "WORD", "DINT", "UDINT", "DWORD", "REAL",
     "FLOAT", "LREAL", "DOUBLE", "BIT", "BYTE", "TIME", "TIMER", "S5TIME"}

typeIsNumber(type) == type \in numberTypes

typeIsObject(type) == type \in {"IEC_TIMER"}

isBoolean(type) == type = "BIT" \/ type = "BOOL"

isString(type) == type = "STRING"

\* no rounding
roundUpToEvenMutSame(n) == n

\* n + n % 2
roundUpToEven(n) == n + (n % 2)

\* typeList[type] || 2
variableTypeSize(type) ==
    CASE type \in {"SINT", "USINT", "CHAR", "BIT", "BOOL", "BYTE"} -> 1
      [] type \in {"INT", "UINT", "WORD", "S5TIME"} -> 2
      [] type \in {"DINT", "UDINT", "DWORD", "REAL", "FLOAT", "TIME", "TIMER"} -> 4
      [] type \in {"LREAL", "DOUBLE"} -> 8
      [] type = "STRING" -> 256
      [] type = "IEC_TIMER" -> 16
      [] OTHER -> 2

\* (item.strlen || 254) + 2, rounded up to even
StrStride(item) ==
    LET strlen_temp == (IF item.strlen = 0 THEN 254 ELSE item.strlen) + 2
    IN  strlen_temp + (strlen_temp % 2)

\* typesize of DBStructure_calculateSize, DBStructure_parse, DBStructure_encode
TypeSize(item) ==
    IF isString(item.type) THEN StrStride(item) ELSE variableTypeSize(item.type)

\* item.size && item.size > 1
IsArrayItem(item) == item.size > 1

(***************************************************************************)
(* DBStructure_calculateSize (lines 180-231)                               *)
(***************************************************************************)
\* 2 * Math.ceil(size / 16): the bytes of a boolean array
BoolArrayBytes(size) == 2 * Ceil(size, 16)

RECURSIVE LayoutFrom(_, _, _, _, _)
\* the loop from item n on; start in tenths; total_size and used_bits so far
LayoutFrom(items, n, start, total, bits) ==
    IF n > Len(items)
    THEN [size  |-> roundUpToEven(IF bits > 0 THEN total + 1 ELSE total),
          items |-> items]
    ELSE
    LET it0      == items[n]
        item     == [it0 EXCEPT !.size = IF it0.size > 0 THEN it0.size ELSE 1,
                                !.strlen = IF isString(it0.type) /\ it0.strlen = 0
                                           THEN 254 ELSE it0.strlen]
        isBool   == isBoolean(item.type)
        isStr    == isString(item.type)
        typesize == TypeSize(item)
        closes   == bits > 0 /\ ~isBool
        t1       == IF closes
                    THEN (IF typesize > 1 THEN roundUpToEven(total + 1) ELSE total + 1)
                    ELSE total
        b1       == IF closes THEN 0 ELSE bits
        t2       == IF isStr THEN roundUpToEven(t1) ELSE t1
        offset   == start + 10 * t2 + b1
        \* Handle variable arrays
        ta       == roundUpToEven(IF b1 > 0 THEN t2 + 1 ELSE t2)
        tb       == roundUpToEven(ta + (IF isBool THEN BoolArrayBytes(item.size)
                                        ELSE typesize * item.size))
        \* Handle single variable entry
        ts       == IF typesize > 1 THEN roundUpToEven(t2) ELSE t2
        total1   == IF item.size > 1 THEN tb
                    ELSE IF isBool THEN (IF b1 + 1 >= 8 THEN t2 + 1 ELSE t2)
                    ELSE ts + typesize
        bits1    == IF item.size > 1 THEN 0
                    ELSE IF isBool THEN (IF b1 + 1 >= 8 THEN 0 ELSE b1 + 1)
                    ELSE 0
    IN  LayoutFrom([items EXCEPT ![n] = [item EXCEPT !.offset = offset]],
                   n + 1, start, total1, bits1)

\* returns the total size and the items as annotated (type, size, strlen, offset)
DBStructure_calculateSize(items, start_offset) ==
    LayoutFrom(items, 1, start_offset, 0, 0)

(***************************************************************************)
(* Buffer primitives (Node's Buffer reads and writes): a read or write out  *)
(* of the buffer, or of a value out of the type's range, throws.           *)
(***************************************************************************)
InBuf(buf, offset, width) == offset >= 0 /\ offset + width <= Len(buf)

Byte(buf, offset) == buf[offset + 1]

\* the bytes, most significant first, of 0 <= u < 256^width
RECURSIVE BytesBE(_, _)
BytesBE(u, width) ==
    IF width = 0 THEN <<>> ELSE Append(BytesBE(u \div 256, width - 1), u % 256)

\* the number whose bytes, most significant first, are bs
RECURSIVE ValueBE(_)
ValueBE(bs) ==
    IF bs = <<>> THEN 0 ELSE 256 * ValueBE(SubSeq(bs, 1, Len(bs) - 1)) + bs[Len(bs)]

Pow256(width) == CASE width = 1 -> 256 [] width = 2 -> 65536 [] OTHER -> 16777216

\* the top value of a signed or unsigned integer of this width (the largest
\* unsigned 32-bit values are beyond the model's integers and not drawn)
MaxSigned(width) == IF width = 4 THEN 2147483647 ELSE Pow256(width) \div 2 - 1

MaxUnsigned(width) == IF width = 4 THEN 2147483647 ELSE Pow256(width) - 1

Splice(buf, offset, bs) ==
    [j \in 1..Len(buf) |->
        IF j > offset /\ j <= offset + Len(bs) THEN bs[j - offset] ELSE buf[j]]

\* buffer.writeUInt8 / writeUInt16BE / writeUInt32BE: [ok, buf]
WriteUIntBE(buf, v, offset, width) ==
    IF InBuf(buf, offset, width) /\ v >= 0 /\ v <= MaxUnsigned(width)
    THEN [ok |-> TRUE, buf |-> Splice(buf, offset, BytesBE(v, width))]
    ELSE [ok |-> FALSE, buf |-> buf]

\* the two's complement bytes of a negative v
NegBytes(v, width) ==
    LET low == BytesBE((v + MaxSigned(width)) + 1, width)
    IN  [low EXCEPT ![1] = @ + 128]

\* buffer.writeInt8 / writeInt16BE / writeInt32BE
WriteIntBE(buf, v, offset, width) ==
    IF InBuf(buf, offset, width) /\ v >= -MaxSigned(width) - 1 /\ v <= MaxSigned(width)
    THEN [ok |-> TRUE,
          buf |-> Splice(buf, offset,
                         IF v >= 0 THEN BytesBE(v, width) ELSE NegBytes(v, width))]
    ELSE [ok |-> FALSE, buf |-> buf]

\* buffer.readUInt8 / readUInt16BE / readUInt32BE: [ok, v]
ReadUIntBE(buf, offset, width) ==
    IF InBuf(buf, offset, width)
    THEN [ok |-> TRUE, v |-> ValueBE(SubSeq(buf, offset + 1, offset + width))]
    ELSE [ok |-> FALSE, v |-> 0]

\* buffer.readInt8 / readInt16BE / readInt32BE
ReadIntBE(buf, offset, width) ==
    IF InBuf(buf, offset, width)
    THEN LET bs == SubSeq(buf, offset + 1, offset + width)
         IN  [ok |-> TRUE,
              v  |-> IF bs[1] < 128 THEN ValueBE(bs)
                     ELSE (ValueBE([bs EXCEPT ![1] = @ - 128]) - MaxSigned(width)) - 1]
    ELSE [ok |-> FALSE, v |-> 0]

\* bit i (0..7) of a byte
BitOf(byte, i) == (byte \div (2 ^ i)) % 2

SetBit(byte, i, on) ==
    IF on THEN (IF BitOf(byte, i) = 1 THEN byte ELSE byte + 2 ^ i)
    ELSE (IF BitOf(byte, i) = 1 THEN byte - 2 ^ i ELSE byte)

(***************************************************************************)
(* Decoding (lines 117-284)                                                *)
(***************************************************************************)
\* parseBooleanFromBuffer(buffer, offset, index): bit index % 8 of the signed
\* byte at offset (+1 when index > 7); index -1 shifts by 31 and so yields
\* the sign, bit 7
parseBooleanFromBuffer(buf, offset, index) ==
    LET add == IF index > 7 THEN 1 ELSE 0
        i   == IF index < 0 THEN 7 ELSE index % 8
    IN  IF ~InBuf(buf, offset + add, 1) THEN Diagnostic
        ELSE Bool(BitOf(Byte(buf, offset + add), i) = 1)

FromRead(r) == IF r.ok THEN Num(r.v) ELSE Diagnostic

\* S5Time_timebase[factor]
S5Time_timebase(factor) ==
    CASE factor = 0 -> 10 [] factor = 1 -> 100 [] factor = 2 -> 1000 [] OTHER -> 10000

\* +(n).toString(16) of 0 <= n <= 0xFFF: the hexadecimal digits read as a
\* decimal number, NaN when one of them is a letter
HexDigitsAsDecimal(n) ==
    IF (n \div 256) > 9 \/ ((n \div 16) % 16) > 9 \/ (n % 16) > 9 THEN NaN
    ELSE Num((n \div 256) * 100 + ((n \div 16) % 16) * 10 + (n % 16))

\* parseS5TimeFromBuffer(buffer, offset)
parseS5TimeFromBuffer(buf, offset) ==
    IF ~InBuf(buf, offset, 2) THEN Diagnostic
    ELSE IF HexDigitsAsDecimal(ReadUIntBE(buf, offset, 2).v % 4096) = NaN THEN NaN
    ELSE Num(HexDigitsAsDecimal(ReadUIntBE(buf, offset, 2).v % 4096).n
             * S5Time_timebase((ReadUIntBE(buf, offset, 2).v \div 4096) % 4))

\* parseStringFromBuffer(buffer, offset, expected_strlen): the used length is
\* the second byte; a read out of the buffer ends the loop in the catch and
\* the characters read so far are returned
parseStringFromBuffer(buf, offset) ==
    IF ~InBuf(buf, offset, 2) THEN Str(<<>>)
    ELSE Str(SubSeq(buf, offset + 3,
                    offset + 2 + Min(Byte(buf, offset + 1), Len(buf) - (offset + 2))))

\* the fields of parseIECTimerFromBuffer, Q read from the bit of IN
IECTimerFieldsMutQ ==
    << [name |-> "start", type |-> "UDINT", sub |-> 0,  i |-> 0],
       [name |-> "PT",    type |-> "TIME",  sub |-> 4,  i |-> 0],
       [name |-> "ET",    type |-> "TIME",  sub |-> 8,  i |-> 0],
       [name |-> "IN",    type |-> "BOOL",  sub |-> 12, i |-> 0],
       [name |-> "Q",     type |-> "BOOL",  sub |-> 12, i |-> 0],
       [name |-> "end",   type |-> "UINT",  sub |-> 14, i |-> 0] >>

\* the fields of parseIECTimerFromBuffer: name, type, the offset added and
\* the bit index passed (0 where none is passed, the parameter's default)
IECTimerFields ==
    << [name |-> "start", type |-> "UDINT", sub |-> 0,  i |-> 0],
       [name |-> "PT",    type |-> "TIME",  sub |-> 4,  i |-> 0],
       [name |-> "ET",    type |-> "TIME",  sub |-> 8,  i |-> 0],
       [name |-> "IN",    type |-> "BOOL",  sub |-> 12, i |-> 0],
       [name |-> "Q",     type |-> "BOOL",  sub |-> 12, i |-> 1],
       [name |-> "end",   type |-> "UINT",  sub |-> 14, i |-> 0] >>

\* an array of {name, type, value} as a value
Fields(fs) == [t |-> "fields", n |-> 0, s |-> fs]

RECURSIVE parseValueFromBuffer(_, _, _, _, _)

\* parseIECTimerFromBuffer(buffer, offset): each field is read by its own
\* parseValueFromBuffer, which catches its own range error
parseIECTimerFromBuffer(buf, offset) ==
    Fields([k \in 1..Len(IECTimerFields) |->
               [name  |-> IECTimerFields[k].name,
                type  |-> IECTimerFields[k].type,
                value |-> parseValueFromBuffer(buf, IECTimerFields[k].type,
                                               offset + IECTimerFields[k].sub,
                                               IECTimerFields[k].i, 0)]])

\* parseValueFromBuffer(buffer, type, offset, i, expected_strlen)
parseValueFromBuffer(buf, type, offset, i, expected_strlen) ==
    CASE type \in {"BIT", "BOOL"} -> parseBooleanFromBuffer(buf, offset, i)
      [] type \in {"BYTE", "USINT"} -> FromRead(ReadUIntBE(buf, offset, 1))
      [] type = "SINT" -> FromRead(ReadIntBE(buf, offset, 1))
      [] type = "INT" -> FromRead(ReadIntBE(buf, offset, 2))
      [] type \in {"UINT", "WORD"} -> FromRead(ReadUIntBE(buf, offset, 2))
      [] type = "DINT" -> FromRead(ReadIntBE(buf, offset, 4))
      [] type \in {"UDINT", "DWORD", "TIME", "TIMER"} ->
             FromRead(ReadUIntBE(buf, offset, 4))
      [] type = "STRING" -> parseStringFromBuffer(buf, offset)
      [] type = "S5TIME" -> parseS5TimeFromBuffer(buf, offset)
      [] type = "IEC_TIMER" -> parseIECTimerFromBuffer(buf, offset)
      [] OTHER -> FromRead(ReadUIntBE(buf, offset, 2))

RECURSIVE ParseElems(_, _, _, _, _, _, _)
\* the array loop of DBStructure_parse: todo elements left, values so far
ParseElems(buf, item, todo, offset, bits, typesize, acc) ==
    IF todo = 0 THEN [values |-> acc, offset |-> offset, bits |-> bits]
    ELSE
    LET isBool == isBoolean(item.type)
        raw    == parseValueFromBuffer(buf, item.type, offset, bits - 1, typesize)
        value  == IF typeIsNumber(item.type) THEN FiniteOrZero(raw) ELSE raw
        pushed == IF isBool THEN Bool(Truthy(value)) ELSE value
        wraps  == isBool /\ bits + 1 >= 8
    IN  ParseElems(buf, item, todo - 1,
                   IF isBool THEN (IF wraps THEN offset + 1 ELSE offset)
                   ELSE offset + typesize,
                   IF isBool THEN (IF wraps THEN 0 ELSE bits + 1) ELSE bits,
                   typesize, Append(acc, pushed))

\* `${name}.${field}` (i = -1) or `${name}[${i}].${field}`
FieldName(name, i, field) == [of |-> name, i |-> i, field |-> field]

\* the entries pushed for an item of an object type: one per field of the
\* single value, or per field of each element that is an array of fields
Flattened(result, isArr) ==
    IF isArr
    THEN [k \in 1..(Len(result.value.s) * Len(IECTimerFields)) |->
             LET i == (k - 1) \div Len(IECTimerFields)
                 f == result.value.s[i + 1].s[((k - 1) % Len(IECTimerFields)) + 1]
             IN  [name  |-> FieldName(result.name, i, f.name), type |-> f.type,
                  value |-> f.value, at |-> result.at]]
    ELSE [k \in 1..Len(result.value.s) |->
             [name  |-> FieldName(result.name, -1, result.value.s[k].name),
              type  |-> result.value.s[k].type,
              value |-> result.value.s[k].value, at |-> result.at]]

RECURSIVE ParseFrom(_, _, _, _, _, _)
\* the item loop of DBStructure_parse from item n on
ParseFrom(items, buf, n, offset, bits, output) ==
    IF n > Len(items) THEN output
    ELSE
    LET item     == items[n]
        isBool   == isBoolean(item.type)
        typesize == TypeSize(item)
        isArr    == IsArrayItem(item)
        o1       == IF isBool /\ ~isArr THEN offset
                    ELSE (IF bits > 0 THEN offset + 1 ELSE offset)
        b1       == IF isBool /\ ~isArr THEN bits + 1 ELSE 0
        \* array
        el       == ParseElems(buf, item, item.size, roundUpToEven(o1), b1,
                               typesize, <<>>)
        \* single
        o2       == IF typesize > 1 THEN roundUpToEven(o1) ELSE o1
        single   == parseValueFromBuffer(buf, item.type, o2, b1 - 1, typesize)
        o3       == o2 + (IF isBool THEN 0 ELSE typesize)
        result   == [name |-> item.name, type |-> item.type,
                     value |-> IF isArr THEN Arr(el.values) ELSE single,
                     at |-> IF isArr THEN <<roundUpToEven(o1), b1 - 1>>
                            ELSE <<o2, b1 - 1>>]
    IN  ParseFrom(items, buf, n + 1,
                  IF isArr THEN roundUpToEven(el.offset)
                  ELSE (IF b1 >= 8 THEN o3 + 1 ELSE o3),
                  IF isArr THEN el.bits ELSE (IF b1 >= 8 THEN 0 ELSE b1),
                  IF typeIsObject(item.type) THEN output \o Flattened(result, isArr)
                  ELSE Append(output, result))

\* DBStructure_parse(db, buffer): {name, type, value} per item; "at" is
\* history: the byte offset and bit index the item was read at
DBStructure_parse(items, buf) == ParseFrom(items, buf, 1, 0, 0, <<>>)

(***************************************************************************)
(* Encoding (lines 372-511)                                                *)
(***************************************************************************)
\* encodeBooleanToBuffer(value, buffer, offset, index): with index -1 the
\* mask is 1 << 31: setting makes the byte negative and writeUInt8 throws,
\* clearing leaves the byte as it is
encodeBooleanToBuffer(value, buf, offset, index) ==
    IF ~InBuf(buf, offset, 1) THEN [ok |-> FALSE, buf |-> buf]
    ELSE IF index < 0 THEN [ok |-> ~value, buf |-> buf]
    ELSE [ok |-> TRUE,
          buf |-> [buf EXCEPT ![offset + 1] = SetBit(@, index, value)]]

\* encodeS5TimeToBuffer: value > 9990000 ? 9990000 : value < 0 ? 0 : value
S5Clamp(value) == IF value > 9990000 THEN 9990000 ELSE IF value < 0 THEN 0 ELSE value

\* always the 100 ms timebase
S5FactorMutHundred(value) == 1

\* encodeS5TimeToBuffer: the lowest factor for the (clamped) value
S5Factor(value) ==
    IF value < 9990 THEN 0 ELSE IF value < 99900 THEN 1
    ELSE IF value < 999000 THEN 2 ELSE 3

\* +((value / 10 ** (factor + 1)) | 0).toString().substring(0, 3): the first
\* three decimal digits of the quotient
S5Digits(value) ==
    LET q == value \div S5Time_timebase(S5Factor(value))
    IN  IF q >= 100000 THEN q \div 1000 ELSE IF q >= 10000 THEN q \div 100
        ELSE IF q >= 1000 THEN q \div 10 ELSE q

\* +('0x' + val) & 0x0FFF: the decimal digits read as hexadecimal
DecimalDigitsAsHex(val) ==
    (val \div 100) * 256 + ((val \div 10) % 10) * 16 + (val % 10)

\* encodeS5TimeToBuffer(value, buffer, offset)
encodeS5TimeToBuffer(value, buf, offset) ==
    WriteUIntBE(buf,
                S5Factor(S5Clamp(value)) * 4096
                    + DecimalDigitsAsHex(S5Digits(S5Clamp(value))),
                offset, 2)

\* the bytes encodeStringToBuffer writes one after another: strlen - 2, the
\* number of characters kept, the characters (strlen is the item's stride,
\* the capacity + 2 rounded up to even)
StringBytes(chars, strlen) ==
    << strlen - 2, Min(Len(chars), strlen - 2) >>
        \o SubSeq(chars, 1, Min(Len(chars), strlen - 2))

\* encodeStringToBuffer(value, buffer, offset, strlen): a write out of the
\* buffer throws and ends the writing; what was written before stays
encodeStringToBuffer(value, buf, offset, strlen) ==
    IF ~InBuf(buf, offset, 0) THEN [ok |-> FALSE, buf |-> buf]
    ELSE [ok  |-> InBuf(buf, offset, Len(StringBytes(value.s, strlen))),
          buf |-> Splice(buf, offset,
                         SubSeq(StringBytes(Codes(value), strlen), 1,
                                Min(Len(StringBytes(Codes(value), strlen)),
                                    Len(buf) - offset)))]

\* encodeValueToBuffer(buffer, value, type, offset, i, strlen): the switch has
\* no case 'BIT', which falls to the default, writeUInt16BE
encodeValueToBuffer(buf, value, type, offset, i, strlen) ==
    CASE type = "BOOL" -> encodeBooleanToBuffer(Truthy(value), buf, offset, i)
      [] type \in {"BYTE", "USINT"} -> WriteUIntBE(buf, ToNumber(value), offset, 1)
      [] type = "SINT" -> WriteIntBE(buf, ToNumber(value), offset, 1)
      [] type = "INT" -> WriteIntBE(buf, ToNumber(value), offset, 2)
      [] type \in {"UINT", "WORD"} -> WriteUIntBE(buf, ToNumber(value), offset, 2)
      [] type = "DINT" -> WriteIntBE(buf, ToNumber(value), offset, 4)
      [] type \in {"UDINT", "DWORD", "TIME", "TIMER"} ->
             WriteUIntBE(buf, ToNumber(value), offset, 4)
      [] type = "STRING" -> encodeStringToBuffer(value, buf, offset, strlen)
      [] type = "S5TIME" -> encodeS5TimeToBuffer(ToNumber(value), buf, offset)
      [] OTHER -> WriteUIntBE(buf, ToNumber(value), offset, 2)

\* const v = typeIsNumber(type) ? (isFinite(+value) ? +value : 0) : value
EncodedValue(type, value) == IF typeIsNumber(type) THEN FiniteOrZero(value) ELSE value

RECURSIVE EncodeElems(_, _, _, _, _, _, _)
\* the array loop of DBStructure_encode from element k (from 1) on; "put" is
\* history: where each element was written, and whether the write went through
EncodeElems(buf, item, k, offset, bits, typesize, put) ==
    IF k > item.size THEN [buf |-> buf, offset |-> offset, bits |-> bits, put |-> put]
    ELSE
    LET isBool == isBoolean(item.type)
        val    == IF k <= Len(item.value.s) THEN item.value.s[k] ELSE Num(0)
        w      == IF typeIsObject(item.type) THEN [ok |-> TRUE, buf |-> buf]
                  ELSE encodeValueToBuffer(buf, EncodedValue(item.type, val),
                                           item.type, offset, bits - 1, typesize)
        wraps  == isBool /\ bits + 1 >= 8
    IN  EncodeElems(w.buf, item, k + 1,
                    IF isBool THEN (IF wraps THEN offset + 1 ELSE offset)
                    ELSE offset + typesize,
                    IF isBool THEN (IF wraps THEN 0 ELSE bits + 1) ELSE bits,
                    typesize, Append(put, <<offset, bits - 1, w.ok>>))

RECURSIVE EncodeFrom(_, _, _, _, _, _)
\* the item loop of DBStructure_encode from item n on
EncodeFrom(items, buf, n, offset, bits, put) ==
    IF n > Len(items) THEN [buf |-> buf, put |-> put]
    ELSE
    LET item     == items[n]
        isBool   == isBoolean(item.type)
        typesize == TypeSize(item)
        isArr    == IsArrayItem(item)
        o1       == IF isBool /\ ~isArr THEN offset
                    ELSE (IF bits > 0 THEN offset + 1 ELSE offset)
        b1       == IF isBool /\ ~isArr THEN bits + 1 ELSE 0
        \* size > 1 && Array.isArray(value)
        asArr    == isArr /\ item.value.t = "arr"
        el       == EncodeElems(buf, item, 1, roundUpToEven(o1), b1, typesize, <<>>)
        \* single
        o2       == IF typesize > 1 \/ isString(item.type)
                    THEN roundUpToEven(o1) ELSE o1
        w        == IF typeIsObject(item.type) THEN [ok |-> TRUE, buf |-> buf]
                    ELSE encodeValueToBuffer(buf, EncodedValue(item.type, item.value),
                                             item.type, o2, b1 - 1, typesize)
        o3       == o2 + (IF isBool THEN 0 ELSE typesize)
    IN  EncodeFrom(items, IF asArr THEN el.buf ELSE w.buf, n + 1,
                   IF asArr THEN roundUpToEven(el.offset)
                   ELSE (IF b1 >= 8 THEN o3 + 1 ELSE o3),
                   IF asArr THEN el.bits ELSE (IF b1 >= 8 THEN 0 ELSE b1),
                   Append(put, IF asArr THEN el.put ELSE << <<o2, b1 - 1, w.ok>> >>))

\* DBStructure_encode(db): Buffer.alloc(size per the layout), then the loop
DBStructure_encode(items, start_offset) ==
    LET lay == DBStructure_calculateSize(items, start_offset)
    IN  EncodeFrom(lay.items, [j \in 1..lay.size |-> 0], 1, 0, 0, <<>>)

(***************************************************************************)
(* Actions of the scheduler.  Each is one turn of the event loop: a timer  *)
(* or transport callback and everything that runs synchronously after it.  *)
(***************************************************************************)
\* delay(50 * i) elapses, isAvailable(host) answers true: the gate is taken
\* and S7.read / S7.write runs up to its first await (lines 812-814, 670-682,
\* 598-610): the client is taken, connect() is called twice (once unawaited
\* by S7.read, once awaited by client.read) unless the client is connected.
GateFree(c) ==
    /\ st[c].pc = "gate"
    /\ LET h  == CurHost(c)
           av == isAvailable(sequences, h)
           tk == TakeClient(reusable, clients, h)
           on == tk.clients[tk.client].connected
       IN  /\ av.output
           /\ sequences' = av.sequences
           /\ clients' = tk.clients
           /\ reusable' = tk.reusable
           /\ st' = [st EXCEPT ![c] =
                  [@ EXCEPT !.pc = IF on THEN "xfer" ELSE "connect",
                            !.i = 0, !.waited = st[c].i > 0,
                            !.ncalls = IF on THEN 0 ELSE 2,
                            !.client = tk.client,
                            !.used = Append(@, <<h, tk.client>>),
                            !.k = 0, !.retries = ReadRetries, !.tries = 0,
                            !.buf = <<>>, !.issued = <<>>]]
    /\ UNCHANGED <<req, bufferSize, faults, released, codecVars, handlerVars>>

\* delay(50 * i) elapses, isAvailable(host) answers false.  The last round
\* (i = 19) has no delay, so it runs in the same turn and finds the gate as
\* the round before found it; the loop ends and '113...' is thrown.
GateBusy(c) ==
    /\ st[c].pc = "gate"
    /\ LET h    == CurHost(c)
           av   == isAvailable(sequences, h)
           next == st[c].i + 1
           s1   == [st[c] EXCEPT !.i = next]
           s2   == [st[c] EXCEPT !.i = next + 1, !.waited = TRUE]
       IN  /\ ~av.output
           /\ sequences' = av.sequences
           /\ st' = [st EXCEPT ![c] =
                  IF next < GateAttempts - 1 THEN s1
                  ELSE AfterEntry(c, s2, Rejected(Unreachable))]
    /\ UNCHANGED <<req, bufferSize, clients, reusable, faults, released, codecVars,
                   handlerVars>>

\* the awaited ConnectTo calls back
ConnectDone(c, ok) ==
    /\ st[c].pc = "connect"
    /\ ok \/ faults < MaxFaults
    /\ LET e == CurEntry(c)
           n == st[c].client
       IN  IF ok
           THEN /\ clients' = [clients EXCEPT ![n].connected = TRUE]
                /\ st' = [st EXCEPT ![c].pc = "xfer"]
                /\ UNCHANGED <<sequences, faults>>
           ELSE \* client.read throws: S7.read catches, calls client.disconnect()
                \* and throws { error, request }; S7.write has no catch
                /\ clients' = IF req[c].op = "read" THEN disconnect(clients, n)
                              ELSE clients
                /\ sequences' = setAvailable(sequences, CurHost(c))
                /\ faults' = faults + 1
                /\ st' = [st EXCEPT ![c] = AfterEntry(c, st[c],
                              Rejected(IF req[c].op = "read" THEN ReadErr(e, 1)
                                       ELSE WriteErr(e)))]
    /\ UNCHANGED <<req, bufferSize, reusable, released, codecVars, handlerVars>>

\* one DBRead of the current chunk and its callback (read_with_retries)
RawRead(c, ok) ==
    /\ st[c].pc = "xfer"
    /\ req[c].op = "read"
    /\ ok \/ faults < MaxFaults
    /\ LET e    == CurEntry(c)
           s    == st[c]
           off  == ChunkOffset(e, s.k)
           len  == ChunkLen(e, s.k)
           s1   == [s EXCEPT !.tries = @ + 1, !.ncalls = @ + 1,
                             !.issued = IF s.tries = 0
                                        THEN Append(@, <<off, len>>) ELSE @]
           buf1 == s.buf \o RawData(off, len)
       IN  IF ok
           THEN IF s.k + 1 < batchCount(e.size)
                THEN /\ st' = [st EXCEPT ![c] =
                            [s1 EXCEPT !.k = s.k + 1, !.buf = buf1,
                                       !.retries = ReadRetries, !.tries = 0]]
                     /\ UNCHANGED <<clients, sequences, faults>>
                ELSE \* DBStructure_parse, client.disconnect(), setAvailable
                     /\ clients' = disconnect(clients, s.client)
                     /\ sequences' = setAvailable(sequences, CurHost(c))
                     /\ st' = [st EXCEPT ![c] = AfterEntry(c,
                            [s1 EXCEPT !.buf = buf1, !.parsed = buf1],
                            Resolved(ParsedValues(e)))]
                     /\ UNCHANGED faults
           ELSE IF read_with_retries_again(s.retries)
                THEN /\ st' = [st EXCEPT ![c] = [s1 EXCEPT !.retries = @ - 1]]
                     /\ faults' = faults + 1
                     /\ UNCHANGED <<clients, sequences>>
                ELSE /\ clients' = disconnect(clients, s.client)
                     /\ sequences' = setAvailable(sequences, CurHost(c))
                     /\ faults' = faults + 1
                     /\ st' = [st EXCEPT ![c] = AfterEntry(c,
                            [s1 EXCEPT !.failed = TRUE], Rejected(ReadErr(e, 2)))]
    /\ UNCHANGED <<req, bufferSize, reusable, released, codecVars, handlerVars>>

\* the one DBWrite of the whole encoded buffer and its callback
\* (write_with_retries: one attempt, no chunking)
RawWrite(c, ok) ==
    /\ st[c].pc = "xfer"
    /\ req[c].op = "write"
    /\ ok \/ faults < MaxFaults
    /\ LET e  == CurEntry(c)
           s  == st[c]
           s1 == [s EXCEPT !.tries = @ + 1, !.ncalls = @ + 1,
                           !.issued = Append(@, <<e.offset, e.size>>)]
       IN  /\ sequences' = setAvailable(sequences, CurHost(c))
           /\ IF ok
              THEN /\ clients' = disconnect(clients, s.client)
                   /\ st' = [st EXCEPT ![c] = AfterEntry(c, s1, Resolved(Undefined))]
                   /\ UNCHANGED faults
              ELSE /\ st' = [st EXCEPT ![c] = AfterEntry(c, s1, Rejected(WriteErr(e)))]
                   /\ faults' = faults + 1
                   /\ UNCHANGED clients
    /\ UNCHANGED <<req, bufferSize, reusable, released, codecVars, handlerVars>>

\* the entry that ended is started once more
ResumeMutSame(c) ==
    /\ st[c].pc = "pause"
    /\ st' = [st EXCEPT ![c] =
           [@ EXCEPT !.pc = "gate", !.adv = "none",
                     !.i = 0, !.waited = FALSE, !.ncalls = 0, !.client = 0,
                     !.tries = 0, !.failed = FALSE, !.issued = <<>>,
                     !.k = 0, !.buf = <<>>, !.parsed = <<>>]]
    /\ UNCHANGED <<req, bufferSize, sequences, reusable, clients, faults,
                   released, codecVars, handlerVars>>

\* delay(5) between two entries of a batch elapses: the next entry starts
Resume(c) ==
    /\ st[c].pc = "pause"
    /\ st' = [st EXCEPT ![c] =
           [@ EXCEPT !.pc = "gate", !.adv = "none",
                     !.di = IF st[c].adv = "db" THEN @ + 1 ELSE 1,
                     !.ti = IF st[c].adv = "db" THEN @ ELSE @ + 1,
                     !.i = 0, !.waited = FALSE, !.ncalls = 0, !.client = 0,
                     !.tries = 0, !.failed = FALSE, !.issued = <<>>,
                     !.k = 0, !.buf = <<>>, !.parsed = <<>>]]
    /\ UNCHANGED <<req, bufferSize, sequences, reusable, clients, faults,
                   released, codecVars, handlerVars>>

\* the auto-release timer fires and leaves the gate as it is
TimerFireMutNoRelease(h) ==
    /\ sequences[h].timeout
    /\ sequences' = [sequences EXCEPT ![h].timeout = FALSE]
    /\ released' = released \cup {h}
    /\ UNCHANGED <<req, bufferSize, st, reusable, clients, faults, codecVars,
                   handlerVars>>

\* the gate's auto-release timer (timeoutReset = 5000 ms) fires
TimerFire(h) ==
    /\ sequences[h].timeout
    /\ sequences' = [sequences EXCEPT ![h] = [available |-> TRUE, timeout |-> FALSE]]
    /\ released' = released \cup {h}
    /\ UNCHANGED <<req, bufferSize, st, reusable, clients, faults, codecVars,
                   handlerVars>>

CodecIdle ==
    /\ cdb = <<>>
    /\ cbuf = <<>>
    /\ cput = <<>>
    /\ cout = <<>>
    /\ cpc = "off"

HandlerIdle ==
    /\ hdb = <<>>
    /\ mem = <<>>
    /\ fractional = "none"
    /\ hlast = <<>>
    /\ hres = <<>>
    /\ hwrites = 0
    /\ hcall = <<>>

SchedIdle ==
    /\ req = <<>>
    /\ bufferSize = 0
    /\ st = <<>>
    /\ sequences = <<>>
    /\ reusable = <<>>
    /\ clients = <<>>
    /\ faults = 0
    /\ released = {}

Init ==
    /\ req \in [Calls -> Requests \cup SingleRequests]
    /\ req[1] \in Requests
    /\ req[2] \in SingleRequests
    /\ bufferSize \in {0, 2}
    /\ st = [c \in Calls |-> InitCall]
    /\ sequences = [h \in Hosts |-> [available |-> TRUE, timeout |-> FALSE]]
    /\ reusable = [h \in Hosts |-> 0]
    /\ clients = <<>>
    /\ faults = 0
    /\ released = {}
    /\ CodecIdle
    /\ HandlerIdle

Next ==
    \/ \E c \in Calls : GateFree(c)
    \/ \E c \in Calls : GateBusy(c)
    \/ \E c \in Calls, ok \in BOOLEAN : ConnectDone(c, ok)
    \/ \E c \in Calls, ok \in BOOLEAN : RawRead(c, ok)
    \/ \E c \in Calls, ok \in BOOLEAN : RawWrite(c, ok)
    \/ \E c \in Calls : Resume(c)
    \/ \E h \in Hosts : TimerFire(h)

Spec == Init /\ [][Next]_vars

(***************************************************************************)
(* LiveSpec: the scheduler with the timers of the event loop firing.  A    *)
(* timer that is armed fires (the gate's auto-release, the delay before a  *)
(* round of the gate loop); a transport callback may never come, which is  *)
(* a request that never completes.                                         *)
(***************************************************************************)
\* one round of the gate loop: delay(50 * i) elapsed, isAvailable(host) asked
Poll(c) == GateFree(c) \/ GateBusy(c)

\* calls over the datablocks of one target, transfers not chunked
LiveInit == Init /\ bufferSize = 0 /\ ~req[1].multi

LiveSpec ==
    /\ LiveInit
    /\ [][Next]_vars
    /\ \A h \in Hosts : WF_vars(TimerFire(h))
    /\ \A c \in Calls : WF_vars(Poll(c))

(***************************************************************************)
(* CodecSpec: a datablock is built (its layout computed), encoded, and the *)
(* buffer decoded.                                                         *)
(***************************************************************************)
\* an item declaration {name, type, size?, strlen?, value}
Item(type, size, value) ==
    [name |-> 0, type |-> type, size |-> size, strlen |-> 0, value |-> value,
     offset |-> 0]

\* a STRING declaration of capacity strlen
StringItem(strlen, value) == [Item("STRING", 0, value) EXCEPT !.strlen = strlen]

\* the declarations the datablocks are drawn from, each with an in-range value
ItemChoices ==
    { Item("BOOL", 0, Bool(TRUE)), Item("BOOL", 0, Bool(FALSE)),
      Item("S5TIME", 0, Num(1234)),
      StringItem(4, Str(<<97, 98, 99>>)),
      StringItem(2, Str(<<97, 98, 99>>)),
      StringItem(3, Str(<<97, 98, 99, 100, 101>>)),
      Item("BIT", 0, Bool(TRUE)),
      Item("BYTE", 0, Num(200)), Item("SINT", 0, Num(-3)),
      Item("INT", 0, Num(-2)), Item("UINT", 0, Num(65535)),
      Item("DINT", 0, Num(-70000)),
      Item("INT", 2, Arr(<<Num(300), Num(-1)>>)),
      Item("BOOL", 3, Arr(<<Bool(FALSE), Bool(TRUE), Bool(TRUE)>>)) }

\* the items named 1, 2, ... in declaration order
Named(ts) == [n \in 1..Len(ts) |-> [ts[n] EXCEPT !.name = n]]

ItemSeqs(choices, max) == UNION { [1..n -> choices] : n \in 1..max }

\* values of an S5TIME around the changes of timebase
S5Values == {0, 5, 1234, 9989, 9990, 10000, 99899, 99900, 998999, 999000, 9990000}

\* a datablock of one S5TIME item
S5Blocks == { << Item("S5TIME", 0, Num(v)) >> : v \in S5Values }

\* eight BOOL items followed by an INT
EightBoolsAndInt ==
    [n \in 1..9 |-> IF n <= 8 THEN Item("BOOL", 0, Bool(n % 2 = 1))
                    ELSE Item("INT", 0, Num(-2))]

\* an array of nine BOOL, the first and the last true, followed by an INT
NineBoolArrayAndInt ==
    << Item("BOOL", 9, Arr([k \in 1..9 |-> Bool(k \in {1, 4, 9})])),
       Item("INT", 0, Num(-2)) >>

\* an array of nine BOOL followed by an array of two INT
NineBoolArrayAndIntArray ==
    << Item("BOOL", 9, Arr([k \in 1..9 |-> Bool(k \in {2, 5})])),
       Item("INT", 2, Arr(<<Num(300), Num(-1)>>)) >>

\* the datablock's starting offset, in tenths: bytes 0, 1 and 2
Starts == {0, 10, 20}

CodecInit ==
    /\ SchedIdle
    /\ HandlerIdle
    /\ cdb \in { [db |-> 1, offset |-> start, size |-> 0, items |-> Named(ts)] :
                 ts \in ItemSeqs(ItemChoices, MaxItems) \cup S5Blocks
                           \cup {EightBoolsAndInt, NineBoolArrayAndInt,
                                 NineBoolArrayAndIntArray},
                 start \in Starts }
    /\ cbuf = <<>>
    /\ cput = <<>>
    /\ cout = <<>>
    /\ cpc = "new"

\* new DBStructure(input): this.size = DBStructure_calculateSize(items, offset)
Build ==
    /\ cpc = "new"
    /\ LET lay == DBStructure_calculateSize(cdb.items, cdb.offset)
       IN  cdb' = [cdb EXCEPT !.items = lay.items, !.size = lay.size]
    /\ cpc' = "built"
    /\ UNCHANGED <<cbuf, cput, cout, schedVars, handlerVars>>

\* DBStructure_encode(datablock)
Encode ==
    /\ cpc = "built"
    /\ LET enc == DBStructure_encode(cdb.items, cdb.offset)
       IN  cbuf' = enc.buf /\ cput' = enc.put
    /\ cpc' = "encoded"
    /\ UNCHANGED <<cdb, cout, schedVars, handlerVars>>

\* DBStructure_parse(datablock, buffer)
Parse ==
    /\ cpc \in {"encoded", "received"}
    /\ cout' = DBStructure_parse(cdb.items, cbuf)
    /\ cpc' = "parsed"
    /\ UNCHANGED <<cdb, cbuf, cput, schedVars, handlerVars>>

CodecNext == Build \/ Encode \/ Parse

CodecSpec == CodecInit /\ [][CodecNext]_vars

(***************************************************************************)
(* DecodeSpec: a datablock holding an IEC_TIMER is built, its bytes arrive *)
(* from the controller, and the buffer is decoded.                         *)
(***************************************************************************)
\* the datablocks: a timer, an array of two timers, a timer after a byte
TimerBlocks ==
    { << Item("IEC_TIMER", 0, Num(0)) >>,
      << Item("IEC_TIMER", 2, Num(0)) >>,
      << Item("BYTE", 0, Num(0)), Item("IEC_TIMER", 0, Num(0)) >> }

\* the 16 bytes of a timer in the controller
TimerImages ==
    { start \o pt \o et \o <<bits, 77>> \o end :
        start \in {<<0, 0, 0, 0>>, <<1, 2, 3, 4>>},
        pt    \in {<<0, 0, 0, 5>>, <<0, 1, 0, 0>>},
        et    \in {<<0, 0, 0, 0>>, <<0, 0, 2, 1>>},
        bits  \in {0, 1, 2, 3, 253},
        end   \in {<<0, 0>>, <<1, 2>>} }

DecodeInit ==
    /\ SchedIdle
    /\ HandlerIdle
    /\ cdb \in { [db |-> 1, offset |-> 0, size |-> 0, items |-> Named(ts)] :
                 ts \in TimerBlocks }
    /\ cbuf = <<>>
    /\ cput = <<>>
    /\ cout = <<>>
    /\ cpc = "new"

\* getS7Data: the buffer of db.size bytes read from the controller; the
\* second timer of an array is the first with its bytes in reverse
Receive ==
    /\ cpc = "built"
    /\ \E img \in TimerImages, lead \in {9, 255} :
           cbuf' = CASE cdb.size = 16 -> img
                     [] cdb.size = 18 -> <<lead, lead>> \o img
                     [] OTHER -> img \o [k \in 1..16 |-> img[17 - k] % 128]
    /\ cpc' = "received"
    /\ UNCHANGED <<cdb, cput, cout, schedVars, handlerVars>>

DecodeNext == Build \/ Receive \/ Parse

DecodeSpec == DecodeInit /\ [][DecodeNext]_vars

(***************************************************************************)
(* TimerEncodeSpec: a datablock with an IEC_TIMER among other items is     *)
(* built and encoded.                                                      *)
(***************************************************************************)
\* the items around the timer
NeighbourChoices ==
    { Item("BOOL", 0, Bool(TRUE)), Item("BYTE", 0, Num(200)),
      Item("INT", 0, Num(-2)), Item("DINT", 0, Num(-70000)) }

Neighbours == UNION { [1..n -> NeighbourChoices] : n \in 0..MaxNeighbours }

\* the timer items: one timer, and arrays of two timers whose value is
\* absent or an array (a timer has no value to encode)
TimerChoices ==
    { Item("IEC_TIMER", 0, Num(0)), Item("IEC_TIMER", 2, Num(0)),
      Item("IEC_TIMER", 2, Arr(<<Num(0), Num(0)>>)) }

TimerEncodeInit ==
    /\ SchedIdle
    /\ HandlerIdle
    /\ cdb \in { [db |-> 1, offset |-> 0, size |-> 0,
                  items |-> Named(pre \o <<timer>> \o post)] :
                 pre \in Neighbours, timer \in TimerChoices, post \in Neighbours }
    /\ cbuf = <<>>
    /\ cput = <<>>
    /\ cout = <<>>
    /\ cpc = "new"

TimerEncodeNext == Build \/ Encode

TimerEncodeSpec == TimerEncodeInit /\ [][TimerEncodeNext]_vars

(***************************************************************************)
(* HandlerSpec: a PLC_handler over one datablock and a transport that      *)
(* stores bytes faithfully.  Requests run one at a time and the transport  *)
(* does not fail, so a call is one step.                                   *)
(***************************************************************************)
\* client.DBWrite(db, offset, size, buff) on the controller's bytes.  The
\* offset arrives in tenths; one that is no whole number is either refused by
\* the binding or cut to its integer part.  [ok, mem]
write_default(m, offset, size, buff) ==
    LET whole == offset % 10 = 0
        start == offset \div 10
    IN  IF (~whole /\ fractional = "reject") \/ start + size > Len(m)
           \/ size > Len(buff)
        THEN [ok |-> FALSE, mem |-> m]
        ELSE [ok |-> TRUE, mem |-> Splice(m, start, SubSeq(buff, 1, size))]

\* client.DBRead(db, offset, size): [ok, buf]
read_default(m, offset, size) ==
    LET whole == offset % 10 = 0
        start == offset \div 10
    IN  IF (~whole /\ fractional = "reject") \/ start + size > Len(m)
        THEN [ok |-> FALSE, buf |-> <<>>]
        ELSE [ok |-> TRUE, buf |-> SubSeq(m, start + 1, start + size)]

\* S7.write(config, db) to its end: new DBStructure(db), DBStructure_encode,
\* one DBWrite of the whole buffer at the datablock's offset.  [ok, mem]
S7_write(m, db) ==
    LET lay == DBStructure_calculateSize(db.items, db.offset)
        enc == DBStructure_encode(lay.items, db.offset)
    IN  IF lay.size > 0 THEN write_default(m, db.offset, lay.size, enc.buf)
        ELSE [ok |-> TRUE, mem |-> m]

\* S7.read(config, db) to its end: new DBStructure(db), DBRead of size bytes
\* at the datablock's offset, DBStructure_parse.  [ok, output, items]
S7_read(m, db) ==
    LET lay == DBStructure_calculateSize(db.items, db.offset)
        r   == read_default(m, db.offset, lay.size)
    IN  IF lay.size = 0 THEN [ok |-> TRUE, output |-> <<>>, items |-> lay.items]
        ELSE IF r.ok
        THEN [ok |-> TRUE, output |-> DBStructure_parse(lay.items, r.buf),
              items |-> lay.items]
        ELSE [ok |-> FALSE, output |-> <<>>, items |-> lay.items]

\* the index of the first item called name, 0 when there is none
FindItem(items, name) ==
    IF \E j \in 1..Len(items) : items[j].name = name
    THEN CHOOSE j \in 1..Len(items) :
             items[j].name = name /\ \A i \in 1..(j - 1) : items[i].name # name
    ELSE 0

\* PLC_handler.write: the request built for one {name, value} (lines 944-948):
\* offset = +item.offset, new_item = { ...item, value, offset: 0 }
WriteRequest(db, j, value) ==
    [db |-> db.db, offset |-> db.items[j].offset,
     items |-> << [db.items[j] EXCEPT !.value = value, !.offset = 0] >>]

RECURSIVE WriteAll(_, _, _, _, _)
\* setS7Data over the write requests of variables k.. : every request is
\* written in turn; ok tells whether all of them went through
WriteAll(m, db, variables, k, ok) ==
    IF k > Len(variables) THEN [ok |-> ok, mem |-> m]
    ELSE LET j == FindItem(db.items, variables[k].name)
             w == S7_write(m, WriteRequest(db, j, variables[k].value))
         IN  IF j = 0 THEN WriteAll(m, db, variables, k + 1, ok)
             ELSE WriteAll(w.mem, db, variables, k + 1, ok /\ w.ok)

\* the declarations of a handler's datablock
HItemChoices == { Item("BOOL", 0, Bool(FALSE)), Item("BYTE", 0, Num(0)),
                  Item("INT", 0, Num(0)) }

\* in-range values of an item's type
ValuesOf(item) ==
    CASE item.type = "BOOL" -> {Bool(TRUE), Bool(FALSE)}
      [] item.type = "BYTE" -> {Num(200)}
      [] OTHER -> {Num(-2)}

\* a value beyond the range of an item's type
OutOfRange(item) == IF item.type = "BYTE" THEN Num(300) ELSE Num(40000)

\* PLC_handler(PLC): the layout is computed once, at construction
PLC_handler(db) ==
    [db EXCEPT !.items = DBStructure_calculateSize(db.items, db.offset).items,
               !.size = DBStructure_calculateSize(db.items, db.offset).size]

HandlerInit ==
    /\ SchedIdle
    /\ CodecIdle
    /\ \E ts \in ItemSeqs(HItemChoices, MaxHItems), start \in {0, 20} :
           hdb = PLC_handler([db |-> 1, offset |-> start, size |-> 0,
                              items |-> Named(ts)])
    /\ \E fill \in {0, 255} :
           mem = [a \in 1..(hdb.offset \div 10 + hdb.size + 2) |-> fill]
    /\ fractional \in {"reject", "truncate"}
    /\ hlast = <<>>
    /\ hres = <<>>
    /\ hwrites = 0
    /\ hcall = <<>>

\* an argument of read / write: kind is what typeof and the destructuring
\* see of it ("object", "null", "undefined", "string"); name 0 is a missing
\* name; NoValue is a missing value
NoValue == [t |-> "undefined", n |-> 0, s |-> <<>>]

Variable(kind, name, value) == [kind |-> kind, name |-> name, value |-> value]

RECURSIVE ValidateFrom(_, _, _)
\* the validation loop of read / write from variable i on (lines 926-931,
\* 961-965): "error" is a returned { error }, "threw" the TypeError of
\* destructuring null, which typeof calls an object
ValidateFrom(variables, i, needValue) ==
    IF i > Len(variables) THEN "ok"
    ELSE IF variables[i].kind \notin {"object", "null"} THEN "error"
    ELSE IF variables[i].kind = "null" THEN "threw"
    ELSE IF variables[i].name = 0 THEN "error"
    ELSE IF needValue /\ variables[i].value = NoValue THEN "error"
    ELSE ValidateFrom(variables, i + 1, needValue)

\* lines 923-931: form "spread" is f(v1, ..., vn) (f(v) and f([v]) alike),
\* form "array" is f([]) , whose length as arguments is 1
Validate(form, variables, needValue) ==
    IF form = "spread" /\ variables = <<>> THEN "error"
    ELSE ValidateFrom(variables, 1, needValue)

RECURSIVE Found(_, _)
\* the variables that name an item of the datablock
Found(db, variables) ==
    IF variables = <<>> THEN <<>>
    ELSE LET rest == Found(db, Tail(variables))
         IN  IF FindItem(db.items, Head(variables).name) # 0
             THEN <<Head(variables)>> \o rest
             ELSE rest

\* how write returns: v is the validation's verdict, found the variables it
\* built write requests for, w what writePLC did with them (lines 954-955)
WriteReturn(m, v, found, w) ==
    IF v # "ok"
    THEN [result |-> v, requests |-> <<>>, mem |-> m, ok |-> FALSE]
    ELSE IF found = <<>>
    THEN [result |-> "undefined", requests |-> <<>>, mem |-> m, ok |-> TRUE]
    ELSE [result |-> IF w.ok THEN "resolved" ELSE "rejected",
          requests |-> found, mem |-> w.mem, ok |-> w.ok]

\* PLC_handler.write(...variables) to its end: how it returned, the write
\* requests it handed to writePLC, the controller's bytes after it
PLC_handler_write(m, db, form, variables) ==
    WriteReturn(m, Validate(form, variables, TRUE), Found(db, variables),
                WriteAll(m, db, Found(db, variables), 1, TRUE))

\* a read request at the local offset 0
ReadRequestMutLocal(db, j) ==
    [db |-> db.db, offset |-> 0, items |-> << db.items[j] >>]

\* PLC_handler.read: the request built for the item found (lines 974-979):
\* the handler's own item, read at its pinned offset
ReadRequest(db, j) ==
    [db |-> db.db, offset |-> db.items[j].offset, items |-> << db.items[j] >>]

\* what getS7Data puts in the output for one read request: the decoded
\* entries, or the one error it caught
ReadOutput(m, db, name) ==
    LET r == S7_read(m, ReadRequest(db, FindItem(db.items, name)))
    IN  IF r.ok THEN r.output
        ELSE << [name |-> name, type |-> "error", value |-> Diagnostic, at |-> <<>>] >>

\* how read returns: v is the validation's verdict, found the variables it
\* built read requests for (lines 986-987)
ReadReturn(m, db, v, found) ==
    IF v # "ok" THEN [result |-> v, requests |-> <<>>, output |-> <<>>]
    ELSE IF found = <<>>
    THEN [result |-> "undefined", requests |-> <<>>, output |-> <<>>]
    ELSE [result |-> "resolved", requests |-> found,
          output |-> Flatten([k \in 1..Len(found) |->
                                 ReadOutput(m, db, found[k].name)])]

\* PLC_handler.read(...variables) to its end
PLC_handler_read(m, db, form, variables) ==
    ReadReturn(m, db, Validate(form, variables, FALSE), Found(db, variables))

\* the write took effect: the bytes, and the call recorded with its outcome
Wrote(w) ==
    /\ mem' = w.mem
    /\ hlast' = <<[variables |-> w.requests, ok |-> w.ok]>>

\* PLC_handler.write(variables) with well-formed variables
HandlerWrite(variables) ==
    /\ hwrites < MaxWrites
    /\ Wrote(PLC_handler_write(mem, hdb, "spread", variables))
    /\ hres' = <<>>
    /\ hwrites' = hwrites + 1
    /\ hcall' = <<>>
    /\ UNCHANGED <<hdb, fractional, schedVars, codecVars>>

\* write({ name, value })
WriteOne ==
    \E j \in 1..Len(hdb.items) : \E v \in ValuesOf(hdb.items[j]) :
        HandlerWrite(<< Variable("object", hdb.items[j].name, v) >>)

\* write({ name, value }) with a value that does not fit the item's type
WriteOutOfRange ==
    \E j \in 1..Len(hdb.items) :
        /\ hdb.items[j].type # "BOOL"
        /\ HandlerWrite(<< Variable("object", hdb.items[j].name,
                                    OutOfRange(hdb.items[j])) >>)

\* writeObject(object): object2block, then write(block)
WriteObject ==
    \E f \in BOOLEAN :
        HandlerWrite([j \in 1..Len(hdb.items) |->
            Variable("object", hdb.items[j].name,
                     IF hdb.items[j].type = "BOOL" THEN Bool(f)
                     ELSE CHOOSE v \in ValuesOf(hdb.items[j]) : TRUE)])

\* readAll(): readPLC({ config, datablocks }); S7.read builds a DBStructure
\* on the handler's own items, which annotates them again
ReadAll ==
    /\ LET r == S7_read(mem, hdb)
       IN  /\ hres' = <<[ok |-> r.ok, output |-> r.output]>>
           /\ hdb' = [hdb EXCEPT !.items = r.items]
    /\ hres = <<>>
    /\ UNCHANGED <<mem, fractional, hlast, hwrites, hcall, schedVars, codecVars>>

\* the read returned r: the call is recorded as the caller saw it
ReadReturned(variables, r) ==
    hcall' = <<[op |-> "read", form |-> "spread", variables |-> variables,
                result |-> r.result, requests |-> r.requests, output |-> r.output]>>

\* read({ name }): the request holds the handler's own item, which the
\* DBStructure that S7.read builds on it annotates again
ReadOne ==
    /\ hcall = <<>>
    /\ \E j \in 1..Len(hdb.items) :
           /\ ReadReturned(<< Variable("object", hdb.items[j].name, NoValue) >>,
                           PLC_handler_read(mem, hdb, "spread",
                               << Variable("object", hdb.items[j].name, NoValue) >>))
           /\ hdb' = [hdb EXCEPT !.items[j] =
                          S7_read(mem, ReadRequest(hdb, j)).items[1]]
    /\ UNCHANGED <<mem, fractional, hlast, hres, hwrites, schedVars, codecVars>>

HandlerNext == WriteOne \/ WriteOutOfRange \/ WriteObject \/ ReadAll \/ ReadOne

HandlerSpec == HandlerInit /\ [][HandlerNext]_vars

(***************************************************************************)
(* ValidationSpec: one call of read or write, with arguments of every      *)
(* kind, on a PLC_handler that has made no call yet.                       *)
(***************************************************************************)
\* what a caller may hand to read / write: well-formed variables for the
\* items and for an unknown name, and the malformed ones
ArgChoices ==
    { Variable("object", 1, Num(200)), Variable("object", 2, Num(-2)),
      Variable("object", 9, Num(1)),
      Variable("object", 0, Num(1)), Variable("object", 1, NoValue),
      Variable("string", 0, NoValue), Variable("undefined", 0, NoValue),
      Variable("null", 0, NoValue) }

Args == UNION { [1..n -> ArgChoices] : n \in 0..MaxArgs }

ValidationInit ==
    /\ SchedIdle
    /\ CodecIdle
    /\ hdb = PLC_handler([db |-> 1, offset |-> 0, size |-> 0,
                          items |-> Named(<< Item("BYTE", 0, Num(0)),
                                             Item("INT", 0, Num(0)) >>)])
    /\ mem = [a \in 1..(hdb.size + 2) |-> 0]
    /\ fractional \in {"reject", "truncate"}
    /\ hlast = <<>>
    /\ hres = <<>>
    /\ hwrites = 0
    /\ hcall = <<>>

\* the call as the caller saw it
Called(op, form, variables, result, requests, output) ==
    hcall' = <<[op |-> op, form |-> form, variables |-> variables,
                result |-> result, requests |-> requests, output |-> output]>>

\* write's effect and return
WriteCalled(form, variables, w) ==
    /\ mem' = w.mem
    /\ Called("write", form, variables, w.result, w.requests, <<>>)

\* read's return
ReadCalled(form, variables, r) ==
    Called("read", form, variables, r.result, r.requests, r.output)

\* f(v1, ..., vn), and f([]) for no variables
Forms(variables) == IF variables = <<>> THEN {"spread", "array"} ELSE {"spread"}

\* write(...variables), write([])
WriteCall ==
    /\ hcall = <<>>
    /\ \E variables \in Args : \E form \in Forms(variables) :
           WriteCalled(form, variables,
                       PLC_handler_write(mem, hdb, form, variables))
    /\ UNCHANGED <<hdb, fractional, hlast, hres, hwrites, schedVars, codecVars>>

\* read(...variables), read([])
ReadCall ==
    /\ hcall = <<>>
    /\ \E variables \in Args : \E form \in Forms(variables) :
           ReadCalled(form, variables,
                      PLC_handler_read(mem, hdb, form, variables))
    /\ UNCHANGED <<hdb, mem, fractional, hlast, hres, hwrites, schedVars, codecVars>>

ValidationNext == WriteCall \/ ReadCall

ValidationSpec == ValidationInit /\ [][ValidationNext]_vars

(***************************************************************************)
(* Vocabulary of the scheduler's properties.                               *)
(***************************************************************************)
Range(f) == { f[x] : x \in DOMAIN f }

Done(c) == st[c].pc = "done"

\* the call is a batch: over several targets, or over several datablocks
IsBatch(r) == r.multi \/ r.targets[1].batch

RECURSIVE EntriesBefore(_, _)
\* the number of datablock entries of the targets before target ti
EntriesBefore(r, ti) ==
    IF ti <= 1 THEN 0
    ELSE EntriesBefore(r, ti - 1) + Len(r.targets[ti - 1].dbs)

NumEntries(r) == EntriesBefore(r, Len(r.targets) + 1)

\* the outcomes of the entries of target ti, in order
Slice(r, os, ti) ==
    SubSeq(os, EntriesBefore(r, ti) + 1, EntriesBefore(r, ti + 1))

\* the outcome of the entry that ended last
LastOutcome(c) == st[c].outcomes[Len(st[c].outcomes)]

\* the entry that ended last is known
Ended(c) == st[c].pc \in {"pause", "done"}

\* what an outcome carries: the decoded values, or the one error
Leaves(o) == IF o.ok THEN Range(o.value.l) ELSE {o.value}

\* the values found in v down to two levels of nesting
DeepElems(v) == Range(v.l) \cup UNION { Range(y.l) : y \in Range(v.l) }

\* one element per entry: entry n's result or entry n's carried error
Aligned(t, os) ==
    IF t.batch THEN List([n \in 1..Len(os) |-> os[n].value]) ELSE os[1].value

\* each entry's decoded values spread in place, each failed entry one error
Spread(t, os) ==
    IF t.batch
    THEN List(Flatten([n \in 1..Len(os) |->
                  IF os[n].ok THEN os[n].value.l ELSE <<os[n].value>>]))
    ELSE os[1].value

\* false for each successful entry, the carried error for each failed one
WriteMarks(os) == List([n \in 1..Len(os) |-> IF os[n].ok THEN False ELSE os[n].value])

AllOk(os) == \A n \in 1..Len(os) : os[n].ok

\* what a target contributes to writePLC's result
WriteElement(t, os) ==
    IF ~t.batch THEN os[1].value
    ELSE IF AllOk(os) THEN Undefined ELSE WriteMarks(os)

(***************************************************************************)
(* C1  Two requests to one host are never in flight together.              *)
(***************************************************************************)
\* C1 (as claimed): at no time are two requests addressed to the same host in
\* flight (between taking the gate and completing) together.
C1_OneInFlightPerHost ==
    \A c1, c2 \in Calls :
        (c1 # c2 /\ InFlight(c1) /\ InFlight(c2)) => CurHost(c1) # CurHost(c2)

\* C1 (amended): as long as the auto-release timer of a host's gate has not
\* fired, at most one request addressed to that host is in flight.
C1_OneInFlightUnlessReleased ==
    \A c1, c2 \in Calls :
        (c1 # c2 /\ InFlight(c1) /\ InFlight(c2) /\ CurHost(c1) = CurHost(c2))
            => CurHost(c1) \in released

\* request 2 found the gate busy, and is in flight after request 1 completed
C1_Witness ==
    /\ released = {}
    /\ ~IsBatch(req[1])
    /\ Done(1)
    /\ InFlight(2)
    /\ st[2].waited
    /\ CurHost(2) = req[1].targets[1].host

(***************************************************************************)
(* C3  A batch read never rejects as a whole.                              *)
(***************************************************************************)
\* C3: a finished batch read has resolved, has attempted every entry, and its
\* result holds every successful entry's values and every failed entry's error.
C3_BatchReadNeverRejects ==
    \A c \in Calls :
        (req[c].op = "read" /\ IsBatch(req[c]) /\ Done(c)) =>
            /\ st[c].status = "resolved"
            /\ Len(st[c].outcomes) = NumEntries(req[c])
            /\ \A n \in 1..Len(st[c].outcomes) :
                   Leaves(st[c].outcomes[n]) \subseteq DeepElems(st[c].value)

\* a batch read over datablocks whose first entry's read gave up after its
\* retries and whose second entry succeeded
C3_Witness ==
    \E c \in Calls :
        /\ req[c].op = "read" /\ ~req[c].multi /\ req[c].targets[1].batch
        /\ Done(c)
        /\ Len(st[c].outcomes) = 2
        /\ ~st[c].outcomes[1].ok /\ st[c].outcomes[1].value.b = 2
        /\ st[c].outcomes[2].ok

(***************************************************************************)
(* C5  The shape of a batch read's result.                                 *)
(***************************************************************************)
\* C5 (as claimed): the result of a batch read has exactly one element per
\* entry, element i being entry i's result or entry i's carried error.
C5_OneElementPerEntry ==
    \A c \in Calls :
        (req[c].op = "read" /\ IsBatch(req[c]) /\ Done(c)) =>
            LET r == req[c]  os == st[c].outcomes
            IN  st[c].value =
                    IF r.multi
                    THEN List([ti \in 1..Len(r.targets) |->
                                  Aligned(r.targets[ti], Slice(r, os, ti))])
                    ELSE Aligned(r.targets[1], os)

\* C5 (amended): a batch read over datablocks yields, in batch order, each
\* successful entry's decoded values spread in place (one element per value)
\* and one carried error per failed entry; a batch read over targets yields
\* exactly one element per target, target i's result or carried error.
C5_SpreadInOrder ==
    \A c \in Calls :
        (req[c].op = "read" /\ IsBatch(req[c]) /\ Done(c)) =>
            LET r == req[c]  os == st[c].outcomes
            IN  /\ Len(os) = NumEntries(r)
                /\ st[c].value =
                    IF r.multi
                    THEN List([ti \in 1..Len(r.targets) |->
                                  Spread(r.targets[ti], Slice(r, os, ti))])
                    ELSE Spread(r.targets[1], os)

\* a batch read over two datablocks, the two-item one read and the other
\* failed: three elements for two entries
C5_Witness ==
    \E c \in Calls :
        /\ req[c].op = "read" /\ ~req[c].multi /\ req[c].targets[1].batch
        /\ Done(c)
        /\ Len(st[c].outcomes) = 2
        /\ st[c].outcomes[1].ok /\ ~st[c].outcomes[2].ok
        /\ Len(st[c].value.l) = 3

(***************************************************************************)
(* C6  A batch write with a failed entry.                                  *)
(***************************************************************************)
\* C6 (as claimed): a finished batch write has resolved, has attempted every
\* entry, and its result is positionally aligned with the batch.
C6_BatchWriteNeverRejects ==
    \A c \in Calls :
        (req[c].op = "write" /\ IsBatch(req[c]) /\ Done(c)) =>
            /\ st[c].status = "resolved"
            /\ Len(st[c].outcomes) = NumEntries(req[c])

\* C6 (amended): a batch write attempts every entry; over the datablocks of
\* one target it resolves (with no value) only when no entry failed and
\* otherwise rejects with the positionally aligned sequence of false and
\* carried errors; over targets it resolves with one element per target.
C6_BatchWriteOutcome ==
    \A c \in Calls :
        (req[c].op = "write" /\ IsBatch(req[c]) /\ Done(c)) =>
            LET r == req[c]  os == st[c].outcomes
            IN  /\ Len(os) = NumEntries(r)
                /\ IF r.multi
                   THEN /\ st[c].status = "resolved"
                        /\ st[c].value =
                              List([ti \in 1..Len(r.targets) |->
                                  WriteElement(r.targets[ti], Slice(r, os, ti))])
                   ELSE IF AllOk(os)
                   THEN st[c].status = "resolved" /\ st[c].value = Undefined
                   ELSE st[c].status = "rejected" /\ st[c].value = WriteMarks(os)

\* a batch write over two datablocks whose first entry failed: the second
\* was attempted and the call rejected with the aligned sequence
C6_Witness ==
    \E c \in Calls :
        /\ req[c].op = "write" /\ ~req[c].multi /\ req[c].targets[1].batch
        /\ Done(c)
        /\ st[c].status = "rejected"
        /\ Len(st[c].outcomes) = 2
        /\ ~st[c].outcomes[1].ok /\ st[c].outcomes[2].ok

(***************************************************************************)
(* C7  The retry budget of a raw read.                                     *)
(***************************************************************************)
\* C7: a raw read's failure propagates only after the initial attempt and
\* three retries, four DBRead calls, have failed.
C7_FailsAfterFourAttempts ==
    \A c \in Calls : st[c].failed => st[c].tries = 1 + 3

(***************************************************************************)
(* C8  Chunking of a read.                                                 *)
(***************************************************************************)
\* C8: with bufferSize > 0 and size > bufferSize the chunks are issued in
\* ascending order, chunk j covering bufferSize bytes from offset +
\* j*bufferSize (the last one what is left); the buffer is their
\* concatenation, size bytes in all; a chunk that gives up is the last issued
\* and the read rejects.
C8_ChunksInOrder ==
    \A c \in Calls :
        LET s == st[c]
            e == CurEntry(c)
            n == Ceil(e.size, bufferSize)
        IN  (req[c].op = "read" /\ bufferSize > 0 /\ e.size > bufferSize) =>
              /\ Len(s.issued) <= n
              /\ \A j \in 1..Len(s.issued) :
                     s.issued[j] = << e.offset + (j - 1) * bufferSize,
                                      Min(bufferSize, e.size - (j - 1) * bufferSize) >>
              /\ s.pc = "xfer" =>
                     /\ s.buf = RawData(e.offset, Len(s.issued) * bufferSize)
                            \/ s.buf = RawData(e.offset, (Len(s.issued) - 1) * bufferSize)
                     /\ s.parsed = <<>>
              /\ s.parsed # <<>> =>
                     /\ s.parsed = RawData(e.offset, e.size)
                     /\ Len(s.issued) = n
                     /\ LastOutcome(c).ok
              /\ s.failed =>
                     /\ Ended(c)
                     /\ ~LastOutcome(c).ok
                     /\ s.parsed = <<>>
                     /\ Len(s.buf) = (Len(s.issued) - 1) * bufferSize

\* a read of three chunks that completed
C8_Witness ==
    \E c \in Calls :
        /\ req[c].op = "read" /\ bufferSize > 0
        /\ CurEntry(c).size > 2 * bufferSize
        /\ Len(st[c].parsed) = CurEntry(c).size
        /\ Len(st[c].issued) >= 3

\* a read of three chunks that gave up on its second chunk
C8_WitnessAbort ==
    \E c \in Calls :
        /\ req[c].op = "read" /\ bufferSize > 0
        /\ CurEntry(c).size > 2 * bufferSize
        /\ st[c].failed
        /\ Len(st[c].issued) = 2

(***************************************************************************)
(* C9  The gate loop gives up after 20 busy rounds.                        *)
(***************************************************************************)
\* C9: an entry ends with '113: TCP : Unreachable peer' exactly when 20
\* rounds found the gate busy, and then it made no transport call and took no
\* client; an entry that ended otherwise was dispatched; a waiting entry has
\* made no transport call.
C9_UnreachableAfterTwentyBusy ==
    \A c \in Calls :
        /\ st[c].pc = "gate" => (st[c].i < 19 /\ st[c].ncalls = 0)
        /\ Ended(c) =>
             /\ (LastOutcome(c).value = Unreachable) <=> (st[c].i = 20)
             /\ st[c].i = 20 =>
                    /\ st[c].ncalls = 0
                    /\ ~LastOutcome(c).ok
                    /\ st[c].client = 0
             /\ st[c].i # 20 => (st[c].i = 0 /\ st[c].ncalls > 0)

\* request 2 gave up at the gate while request 1 held it
C9_Witness ==
    /\ Done(2)
    /\ st[2].status = "rejected"
    /\ st[2].value = Unreachable
    /\ st[2].ncalls = 0
    /\ InFlight(1)

(***************************************************************************)
(* C10  One client per host.                                               *)
(***************************************************************************)
\* C10: of two consecutive entries of a call addressed to the same host, the
\* second uses the client constructed for the first.
C10_SecondRequestReusesClient ==
    \A c \in Calls :
        \A n \in 2..Len(st[c].used) :
            st[c].used[n][1] = st[c].used[n - 1][1]
                => st[c].used[n][2] = st[c].used[n - 1][2]

(***************************************************************************)
(* C2  decode(encode(x)) = x                                               *)
(***************************************************************************)
\* C2: for a datablock of BOOL, BIT and integer items (single and arrays)
\* with in-range values, decoding the encoder's buffer returns one entry per
\* item, in order, holding exactly the value that was encoded.
C2_RoundTrip ==
    (cpc = "parsed" /\ \A n \in 1..Len(cdb.items) :
                          cdb.items[n].type \notin {"STRING", "S5TIME", "IEC_TIMER"}) =>
        /\ Len(cout) = Len(cdb.items)
        /\ \A n \in 1..Len(cdb.items) :
               /\ cout[n].name = cdb.items[n].name
               /\ cout[n].value = cdb.items[n].value

(***************************************************************************)
(* C4  A value written through the handler is the value readAll returns.   *)
(***************************************************************************)
\* the value readAll returned for name (a diagnostic when there is none)
ReadAllValue(name) ==
    LET out == hres[1].output
    IN  IF \E n \in 1..Len(out) : out[n].name = name
        THEN out[CHOOSE n \in 1..Len(out) : out[n].name = name].value
        ELSE Diagnostic

\* C4: after a write call resolved, readAll returns for every written name
\* the value written.
C4_WriteThenReadAll ==
    (hlast # <<>> /\ hres # <<>> /\ hlast[1].ok) =>
        /\ hres[1].ok
        /\ \A k \in 1..Len(hlast[1].variables) :
               ReadAllValue(hlast[1].variables[k].name) = hlast[1].variables[k].value

(***************************************************************************)
(* C11  A stalled request does not hold the gate forever.                  *)
(***************************************************************************)
\* some request is in its gate loop for host h
Waiting(h) == \E c \in Calls : st[c].pc = "gate" /\ CurHost(c) = h

\* C11: a gate that was taken becomes available again, whether or not the
\* request that took it ever completes, and while a request is in the gate
\* loop of a host whose gate is available a request to that host is admitted.
C11_StalledGateReleased ==
    \A h \in Hosts :
        /\ (~sequences[h].available) ~> sequences[h].available
        /\ (Waiting(h) /\ sequences[h].available) ~> ~sequences[h].available

\* request 1 is still in flight when its gate's timer has fired and request
\* 2, which found the gate busy before, is admitted to the same host
C11_Witness ==
    /\ InFlight(1)
    /\ InFlight(2)
    /\ st[2].waited
    /\ CurHost(1) = CurHost(2)
    /\ CurHost(1) \in released
    /\ st[1].outcomes = <<>>

(***************************************************************************)
(* C12  Malformed arguments of read and write.                              *)
(***************************************************************************)
\* the call has no variables, or a variable that is not an object, has no
\* name or (write) has no value
Malformed(call) ==
    \/ call.form = "spread" /\ call.variables = <<>>
    \/ \E i \in 1..Len(call.variables) :
           \/ call.variables[i].kind # "object"
           \/ call.variables[i].name = 0
           \/ call.op = "write" /\ call.variables[i].value = NoValue

\* C12: a read or write call with malformed arguments returns a structured
\* { error } and hands no request to the transport, for none of its variables.
C12_MalformedGivesError ==
    (hcall # <<>> /\ Malformed(hcall[1])) =>
        /\ hcall[1].result = "error"
        /\ hcall[1].requests = <<>>
        /\ mem = [a \in 1..Len(mem) |-> 0]

(***************************************************************************)
(* C13  Alignment of the annotated offsets.                                *)
(***************************************************************************)
\* the datablock has been laid out
Built == cpc \in {"built", "encoded", "parsed"}

\* an annotated offset (in tenths) is an even byte offset, bit 0
EvenByte(offset) == offset % 20 = 0

\* C13: laid out from an even starting offset, every multi-byte scalar and
\* every STRING is annotated an even byte offset; of eight BOOL items and an
\* INT, the booleans are annotated byte 0, bits 0..7, and the INT offset 2.
C13_AnnotatedOffsetsEven ==
    (Built /\ EvenByte(cdb.offset)) =>
        /\ \A n \in 1..Len(cdb.items) :
               (  (variableTypeSize(cdb.items[n].type) > 1 /\ ~IsArrayItem(cdb.items[n]))
               \/ isString(cdb.items[n].type))
                   => EvenByte(cdb.items[n].offset)
        /\ (Len(cdb.items) = 9 /\ cdb.offset = 0) =>
               /\ \A n \in 1..8 : cdb.items[n].offset = n - 1
               /\ cdb.items[9].offset = 20

(***************************************************************************)
(* C14  The total size of a layout.                                        *)
(***************************************************************************)
\* the least room an item needs, in bits: one bit per boolean, the capacity
\* + 2 bytes of a STRING, the type's width otherwise, times the array count
MinBits(item) ==
    (IF item.size > 1 THEN item.size ELSE 1) *
        (IF isBoolean(item.type) THEN 1
         ELSE IF isString(item.type)
         THEN 8 * ((IF item.strlen = 0 THEN 254 ELSE item.strlen) + 2)
         ELSE 8 * variableTypeSize(item.type))

RECURSIVE SumMinBits(_, _)
SumMinBits(items, n) ==
    IF n = 0 THEN 0 ELSE SumMinBits(items, n - 1) + MinBits(items[n])

\* C14: whatever the items and the starting offset, the total size of the
\* layout is even and is at least the sum of the items' minimal strides.
C14_SizeEvenAndSufficient ==
    Built =>
        /\ cdb.size % 2 = 0
        /\ 8 * cdb.size >= SumMinBits(cdb.items, Len(cdb.items))

\* a layout from an odd starting offset of a STRING of odd capacity, a
\* boolean and a one-byte item, which need an odd number of bytes
C14_Witness ==
    /\ Built
    /\ cdb.offset = 10
    /\ Len(cdb.items) = 3
    /\ cdb.items[1].type = "STRING" /\ cdb.items[1].strlen = 3
    /\ cdb.items[2].type = "BOOL" /\ ~IsArrayItem(cdb.items[2])
    /\ cdb.items[3].type = "BYTE"
    /\ cdb.size = 8

(***************************************************************************)
(* C15  The encoding of a STRING.                                          *)
(***************************************************************************)
\* the first n of the codes
Prefix(codes, n) == SubSeq(codes, 1, Min(Len(codes), n))

\* C15: a STRING item of capacity c and a value of L characters is encoded in
\* c + 2 bytes rounded up to even: c, min(L, c), the first min(L, c)
\* characters, nothing after them; decoding returns those characters.
C15_StringRegion ==
    cpc = "parsed" =>
        \A n \in 1..Len(cdb.items) :
            cdb.items[n].type = "STRING" =>
                LET c     == cdb.items[n].strlen
                    at    == cput[n][1][1]
                    kept  == Prefix(Codes(cdb.items[n].value), c)
                    width == roundUpToEven(c + 2)
                IN  /\ at + width <= Len(cbuf)
                    /\ SubSeq(cbuf, at + 1, at + width)
                           = <<c, Len(kept)>> \o kept
                               \o [k \in 1..(width - 2 - Len(kept)) |-> 0]
                    /\ Codes(cout[n].value) = kept

(***************************************************************************)
(* C16  An S5TIME is quantized to its timebase.                            *)
(***************************************************************************)
\* the decoder's entry n is the number q
DecodedNumber(n, q) == cout[n].value = Num(q)

\* the timebase the encoder uses for v: the smallest whose range holds v
TimebaseFor(v) ==
    IF v < 9990 THEN 10 ELSE IF v < 99900 THEN 100
    ELSE IF v < 999000 THEN 1000 ELSE 10000

\* C16 (as claimed): decoding the encoding of an S5TIME v returns v less a
\* remainder smaller than the timebase unit, and for 1234 returns 1200 or 1300.
C16_S5TimeHundreds ==
    cpc = "parsed" =>
        \A n \in 1..Len(cdb.items) :
            cdb.items[n].type = "S5TIME" =>
                LET v == cdb.items[n].value.n
                IN  /\ \E q \in (v - TimebaseFor(v) + 1)..v :
                           q % TimebaseFor(v) = 0 /\ DecodedNumber(n, q)
                    /\ v = 1234 => (DecodedNumber(n, 1200) \/ DecodedNumber(n, 1300))

\* C16 (amended): decoding the encoding of an S5TIME v (0..9990000 ms)
\* returns the largest multiple of the timebase not above v, the timebase
\* being the smallest of 10, 100, 1000 and 10000 ms whose range holds v; for
\* 1234 the timebase is 10 ms and the result 1230.
C16_S5TimeQuantized ==
    cpc = "parsed" =>
        \A n \in 1..Len(cdb.items) :
            cdb.items[n].type = "S5TIME" =>
                LET v == cdb.items[n].value.n
                IN  /\ \E q \in (v - TimebaseFor(v) + 1)..v :
                           q % TimebaseFor(v) = 0 /\ DecodedNumber(n, q)
                    /\ v = 1234 => DecodedNumber(n, 1230)

\* 1234 ms was encoded and decoded, after a boolean
C16_Witness ==
    /\ cpc = "parsed"
    /\ Len(cdb.items) = 2
    /\ cdb.items[1].type = "BOOL"
    /\ cdb.items[2].type = "S5TIME"
    /\ cdb.items[2].value = Num(1234)
    /\ cbuf = <<1, 0, 1, 35>>
    /\ DecodedNumber(2, 1230)

(***************************************************************************)
(* C17  An IEC_TIMER decodes into six named fields.                        *)
(***************************************************************************)
\* the big-endian number in the width bytes of cbuf from offset o on
BigEndian(o, width) ==
    IF width = 2 THEN cbuf[o + 1] * 256 + cbuf[o + 2]
    ELSE ((cbuf[o + 1] * 256 + cbuf[o + 2]) * 256 + cbuf[o + 3]) * 256 + cbuf[o + 4]

\* the number of elements of the timer item, which is the last item of the
\* datablock
TimerElements ==
    IF cdb.items[Len(cdb.items)].size > 1 THEN cdb.items[Len(cdb.items)].size ELSE 1

\* output entry k is called name and holds value
Entry(k, name, value) == cout[k].name = name /\ cout[k].value = value

\* the six entries from k + 1 on are those of the timer p (element i) whose 16
\* bytes start at offset o
SixFields(k, p, i, o) ==
    /\ Entry(k + 1, FieldName(p, i, "start"), Num(BigEndian(o, 4)))
    /\ Entry(k + 2, FieldName(p, i, "PT"), Num(BigEndian(o + 4, 4)))
    /\ Entry(k + 3, FieldName(p, i, "ET"), Num(BigEndian(o + 8, 4)))
    /\ Entry(k + 4, FieldName(p, i, "IN"), Bool(cbuf[o + 13] % 2 = 1))
    /\ Entry(k + 5, FieldName(p, i, "Q"), Bool((cbuf[o + 13] \div 2) % 2 = 1))
    /\ Entry(k + 6, FieldName(p, i, "end"), Num(BigEndian(o + 14, 2)))

\* C17: decoding an IEC_TIMER item p yields exactly the six entries p.start,
\* p.PT, p.ET, p.IN, p.Q, p.end (p[i].field for element i of an array) and no
\* entry p: start, PT and ET are the big-endian 4-byte values at 0, 4 and 8
\* of its 16 bytes, IN and Q bits 0 and 1 of byte 12, end the last 2 bytes.
C17_TimerSixFields ==
    (cpc = "parsed" /\ cdb.items[Len(cdb.items)].type = "IEC_TIMER") =>
        LET lead == Len(cdb.items) - 1
            p    == cdb.items[Len(cdb.items)]
        IN  /\ Len(cout) = lead + 6 * TimerElements
            /\ \A k \in 1..lead : cout[k].name = cdb.items[k].name
            /\ \A e \in 0..(TimerElements - 1) :
                   SixFields(lead + 6 * e, p.name, IF p.size > 1 THEN e ELSE -1,
                             cdb.size - 16 * (TimerElements - e))

\* an array of two timers was decoded: Q but not IN of the first is set, and
\* the second has a start other than the first's
C17_Witness ==
    /\ cpc = "parsed"
    /\ Len(cdb.items) = 1
    /\ cdb.items[1].type = "IEC_TIMER"
    /\ cdb.items[1].size = 2
    /\ cbuf[13] = 2
    /\ Entry(4, FieldName(1, 0, "IN"), Bool(FALSE))
    /\ Entry(5, FieldName(1, 0, "Q"), Bool(TRUE))
    /\ cout[7].name = FieldName(1, 1, "start")
    /\ cout[7].value # cout[1].value
    /\ Len(cout) = 12

(***************************************************************************)
(* C18  The decoder reads where the layout says.                           *)
(***************************************************************************)
\* the bytes item n takes in the buffer
Extent(n) ==
    IF cdb.items[n].size > 1
    THEN (IF isBoolean(cdb.items[n].type) THEN BoolArrayBytes(cdb.items[n].size)
          ELSE TypeSize(cdb.items[n]) * cdb.items[n].size)
    ELSE TypeSize(cdb.items[n])

\* item n is a boolean that is no array
SingleBoolean(n) == isBoolean(cdb.items[n].type) /\ cdb.items[n].size <= 1

\* the offset annotated on item n, relative to the datablock's start, in
\* tenths: byte offset * 10 + bit index
Annotated(n) == cdb.items[n].offset - cdb.offset

\* C18: the decoder reads every item at the byte offset (a single boolean
\* also at the bit index) annotated on it by the layout, relative to the
\* datablock's start, and no read goes beyond the computed size.
C18_DecoderFollowsLayout ==
    cpc = "parsed" =>
        \A n \in 1..Len(cdb.items) :
            /\ cout[n].at[1] = Annotated(n) \div 10
            /\ SingleBoolean(n) => cout[n].at[2] = Annotated(n) % 10
            /\ cout[n].at[1] + Extent(n) <= cdb.size
            /\ cout[n].value # Diagnostic

(***************************************************************************)
(* C19  The encoder writes where the decoder reads.                        *)
(***************************************************************************)
\* every write of item n (of each element of an array) went through
AllWritten(n) == \A k \in 1..Len(cput[n]) : cput[n][k][3]

\* C19: the encoder writes every item, at the byte offset and bit index the
\* decoder reads it at, and no write is lost to a position outside the buffer.
C19_EncoderMirrorsDecoder ==
    cpc = "parsed" =>
        \A n \in 1..Len(cdb.items) :
            /\ Len(cput[n]) = (IF cdb.items[n].size > 1 THEN cdb.items[n].size ELSE 1)
            /\ cput[n][1][1] = cout[n].at[1]
            /\ cput[n][1][2] = cout[n].at[2]
            /\ AllWritten(n)

(***************************************************************************)
(* C20  Boolean arrays: element k is bit k mod 8 of byte k div 8.          *)
(***************************************************************************)
\* item n is an array of booleans
BooleanArray(n) == isBoolean(cdb.items[n].type) /\ cdb.items[n].size > 1

\* bit i of the byte at offset o of the encoded buffer, FALSE beyond its end
BufferBit(o, i) == o < Len(cbuf) /\ BitOf(cbuf[o + 1], i) = 1

\* C20: a boolean array of n elements takes 2 * ceil(n / 16) bytes from an
\* even offset; element k is written to and read from bit k mod 8 of byte
\* k div 8 of them; the item after the array is written and read at the
\* offset the layout annotated on it.
C20_BoolArrayBits ==
    cpc = "parsed" =>
        \A n \in 1..Len(cdb.items) :
            BooleanArray(n) =>
                LET base == cput[n][1][1]
                IN  /\ base % 2 = 0
                    /\ base = Annotated(n) \div 10
                    /\ base + BoolArrayBytes(cdb.items[n].size) <= cdb.size
                    /\ \A k \in 0..(cdb.items[n].size - 1) :
                           /\ cput[n][k + 1] = <<base + (k \div 8), k % 8, TRUE>>
                           /\ cout[n].value.s[k + 1]
                                  = Bool(BufferBit(base + (k \div 8), k % 8))
                    /\ n < Len(cdb.items) =>
                           /\ Annotated(n + 1) \div 10
                                  = base + BoolArrayBytes(cdb.items[n].size)
                           /\ cput[n + 1][1][1] = Annotated(n + 1) \div 10
                           /\ cout[n + 1].at[1] = Annotated(n + 1) \div 10

(***************************************************************************)
(* C21  A write through the handler touches only its item.                 *)
(***************************************************************************)
\* the value readAll returns for item k on the controller's bytes m
ReadAllOf(m, k) == S7_read(m, hdb).output[k].value

\* where the decoder of the whole datablock reads item k: a byte of the
\* controller's memory (from 1) and a bit index
PlaceOf(k) ==
    << hdb.offset \div 10 + S7_read(mem, hdb).output[k].at[1] + 1,
       S7_read(mem, hdb).output[k].at[2] >>

\* address a of the controller's memory belongs to item k
BelongsTo(a, k) ==
    a >= PlaceOf(k)[1] /\ a < PlaceOf(k)[1] + TypeSize(hdb.items[k])

\* bytes x and y are equal but for bit i
SameButBit(x, y, i) == \A b \in 0..7 : b # i => BitOf(x, b) = BitOf(y, b)

\* a write call of one variable returned in this step, successfully
WroteOne == hwrites' = hwrites + 1 /\ hlast'[1].ok /\ Len(hlast'[1].variables) = 1

\* C21: a successful write({name, value}) changes only the bytes of the
\* controller that the layout gives to the item (of a single boolean only
\* its bit), and readAll returns for every other name what it returned before.
C21_WriteFrame ==
    [][WroteOne =>
          LET j == FindItem(hdb.items, hlast'[1].variables[1].name)
          IN  /\ \A a \in 1..Len(mem) :
                     \/ mem'[a] = mem[a]
                     \/ BelongsTo(a, j) /\ hdb.items[j].type # "BOOL"
                     \/ /\ hdb.items[j].type = "BOOL"
                        /\ a = PlaceOf(j)[1]
                        /\ SameButBit(mem'[a], mem[a], PlaceOf(j)[2])
              /\ \A k \in 1..Len(hdb.items) :
                     k # j => ReadAllOf(mem', k) = ReadAllOf(mem, k)]_vars

(***************************************************************************)
(* C22  read({name}) returns what readAll returns for the name.            *)
(***************************************************************************)
\* readAll and a read of one name have both returned on the present bytes
BothRead == hres # <<>> /\ hres[1].ok /\ hcall # <<>>

\* the item the read call named
ReadItem == FindItem(hdb.items, hcall[1].variables[1].name)

\* C22: whatever the controller's bytes, read({name}) returns for the name
\* the value readAll returns for it.
C22_ReadIsReadAll ==
    BothRead =>
        /\ Len(hcall[1].output) = 1
        /\ hcall[1].output[1].value = hres[1].output[ReadItem].value

(***************************************************************************)
(* C29  The layout of a handler is pinned at construction.                 *)
(***************************************************************************)
\* the offset PLC_handler computed for item k at construction: that of the
\* layout of the declared items from the datablock's offset
PinnedOffset(k) == DBStructure_calculateSize(hdb.items, hdb.offset).items[k].offset

\* C29: after any sequence of read, write, readAll and writeObject calls,
\* successful or failed, the offset annotated on every item of the handler's
\* datablock is the offset computed at construction.
C29_LayoutPinned ==
    \A k \in 1..Len(hdb.items) : hdb.items[k].offset = PinnedOffset(k)

\* after a write, readAll and a read of the last of several items, which
\* lies beyond the datablock's own offset, have returned
C29_Witness ==
    /\ hwrites > 0
    /\ hres # <<>>
    /\ hcall # <<>>
    /\ Len(hdb.items) > 1
    /\ ReadItem = Len(hdb.items)
    /\ hdb.items[ReadItem].offset > hdb.offset
    /\ hdb.offset > 0

(***************************************************************************)
(* C23  No raw transfer is longer than bufferSize.                         *)
(***************************************************************************)
\* C23: with bufferSize > 0, no raw transfer handed to the transport, read
\* or write, is longer than bufferSize.
C23_TransfersWithinBufferSize ==
    bufferSize > 0 =>
        \A c \in Calls : \A j \in 1..Len(st[c].issued) :
            st[c].issued[j][2] <= bufferSize

(***************************************************************************)
(* C24  The retry budget of a raw write.                                   *)
(***************************************************************************)
\* the entry of call c that ended last was a write whose DBWrite failed
WriteGaveUp(c) ==
    /\ req[c].op = "write"
    /\ Ended(c)
    /\ ~LastOutcome(c).ok
    /\ st[c].tries > 0

\* C24: a raw write's failure propagates only after the write was tried as
\* often as a raw read is.
C24_WriteRetried ==
    \A c \in Calls : WriteGaveUp(c) => st[c].tries >= ReadRetries

(***************************************************************************)
(* C25  A failed encoding is propagated.                                   *)
(***************************************************************************)
\* value v fits an item of the given type
Fits(type, v) ==
    CASE type = "BYTE" -> v.n \in 0..255
      [] type = "INT" -> v.n \in -32768..32767
      [] OTHER -> TRUE

\* a write call returned in this step, one of whose values does not fit
\* its item
WroteUnfit ==
    /\ hwrites' = hwrites + 1
    /\ \E k \in 1..Len(hlast'[1].variables) :
           ~Fits(hdb.items[FindItem(hdb.items, hlast'[1].variables[k].name)].type,
                 hlast'[1].variables[k].value)

\* C25: when the encoding of an item fails, the write fails for its caller
\* and no buffer is written to the controller.
C25_EncodeFailurePropagates ==
    [][WroteUnfit => (~hlast'[1].ok /\ mem' = mem)]_vars

(***************************************************************************)
(* C26  A failed decoding of one item does not abort the decode.           *)
(***************************************************************************)
\* item n is an array that is not of booleans
PlainArray(n) == cdb.items[n].size > 1 /\ ~isBoolean(cdb.items[n].type)

\* the read of typesize bytes at offset o lies beyond the end of the buffer
BeyondBuffer(o, typesize) == o + typesize > Len(cbuf)

\* C26: the output has an entry for every item; the value of a single item,
\* and of an element of an array, whose read lies beyond the end of the
\* buffer is the diagnostic string, and every other one is decoded.
C26_DiagnosticPerItem ==
    cpc = "parsed" =>
        /\ Len(cout) = Len(cdb.items)
        /\ \A n \in 1..Len(cdb.items) :
               /\ cdb.items[n].size <= 1 =>
                      (cout[n].value = Diagnostic
                           <=> BeyondBuffer(cout[n].at[1], TypeSize(cdb.items[n])))
               /\ PlainArray(n) =>
                      /\ Len(cout[n].value.s) = cdb.items[n].size
                      /\ \A k \in 1..cdb.items[n].size :
                             cout[n].value.s[k] = Diagnostic
                                 <=> BeyondBuffer(cout[n].at[1]
                                                      + (k - 1) * TypeSize(cdb.items[n]),
                                                  TypeSize(cdb.items[n]))

(***************************************************************************)
(* C27  Encoding an IEC_TIMER writes nothing and advances 16 bytes.        *)
(***************************************************************************)
\* the index of the timer item of the datablock
TimerAt == CHOOSE n \in 1..Len(cdb.items) : cdb.items[n].type = "IEC_TIMER"

\* the bytes of the timer item: 16 for each timer
TimerBytes == 16 * cdb.items[TimerAt].size

\* the datablock with the timer item replaced by an item of as many bytes,
\* an array of DINT
Twin ==
    [n \in 1..Len(cdb.items) |->
        IF n = TimerAt
        THEN [cdb.items[n] EXCEPT
                 !.type = "DINT", !.size = TimerBytes \div 4,
                 !.value = Arr([k \in 1..(TimerBytes \div 4) |-> Num(-1)])]
        ELSE cdb.items[n]]

\* address a (from 1) of the buffer lies in the timer's bytes
InTimer(a) == a > cput[TimerAt][1][1] /\ a <= cput[TimerAt][1][1] + TimerBytes

\* the encoding agrees with the twin's (enc) outside the timer's bytes, which
\* are zero
AgreesWith(enc) ==
    /\ Len(cbuf) = Len(enc.buf)
    /\ cput[TimerAt][1][1] = enc.put[TimerAt][1][1]
    /\ \A n \in 1..Len(cdb.items) : n # TimerAt => cput[n] = enc.put[n]
    /\ \A a \in 1..Len(cbuf) :
           IF InTimer(a) THEN cbuf[a] = 0 ELSE cbuf[a] = enc.buf[a]

\* C27: the encoder leaves the 16 bytes of each IEC_TIMER zero, advances its
\* cursor by 16 bytes per timer, and writes every other item as it does
\* when an item of another type takes the timer's bytes.
C27_TimerEncodeNoOp ==
    cpc = "encoded" => AgreesWith(DBStructure_encode(Twin, cdb.offset))

(***************************************************************************)
(* C28  The entries of a batch run one after another.                      *)
(***************************************************************************)
\* the number, in batch order, of the entry call c is at
EntryNumber(c) == EntriesBefore(req[c], st[c].ti) + st[c].di

\* the entries of call c that have ended, resolved or failed
EndedEntries(c) == Len(st[c].outcomes)

\* C28: the entries of a batch are processed in order, one at a time: while
\* an entry waits at the gate or is in flight every entry before it has
\* ended and none after it has been dispatched, and the entry after it
\* starts only once it has ended.
C28_EntriesOneByOne ==
    \A c \in Calls :
        /\ EntryNumber(c) <= NumEntries(req[c])
        /\ st[c].pc \in {"gate", "connect", "xfer"} =>
               EndedEntries(c) = EntryNumber(c) - 1
        /\ Ended(c) => EndedEntries(c) = EntryNumber(c)
        /\ Len(st[c].used) <= EntryNumber(c)
        /\ ~InFlight(c) => Len(st[c].used) <= EndedEntries(c)

\* the second entry of a batch over datablocks is in flight, after the first
\* one failed
C28_Witness ==
    \E c \in Calls :
        /\ IsBatch(req[c])
        /\ st[c].pc = "xfer"
        /\ EntryNumber(c) = 2
        /\ EndedEntries(c) = 1
        /\ ~st[c].outcomes[1].ok

(***************************************************************************)
(* C30  S5TIME values that are representable round-trip exactly.           *)
(***************************************************************************)
\* v = d * tb for a d in 0..999 and a timebase tb
Representable(v) ==
    \E tb \in {10, 100, 1000, 10000} : v % tb = 0 /\ v \div tb <= 999

\* decode(encode(v)) on a buffer of its own
S5RoundTrip(v) ==
    parseS5TimeFromBuffer(encodeS5TimeToBuffer(v, <<0, 0>>, 0).buf, 0).n

\* C30: an S5TIME v that is d * tb, d in 0..999, tb in {10, 100, 1000, 10000},
\* is decoded as v from its encoding; every v in 0..9990000 is decoded as a
\* value not above v, which is decoded as itself from its own encoding.
C30_S5TimeExact ==
    cpc = "parsed" =>
        \A n \in 1..Len(cdb.items) :
            cdb.items[n].type = "S5TIME" =>
                /\ Representable(cdb.items[n].value.n) =>
                       cout[n].value = cdb.items[n].value
                /\ cout[n].value.t = "num"
                /\ cout[n].value.n <= cdb.items[n].value.n
                /\ S5RoundTrip(cout[n].value.n) = cout[n].value.n

====
